---- MODULE Spec2Model ----
(***************************************************************************)
(* Model of the rate-limit state engine of basic-axum-rate-limit           *)
(* (src/src/limiter.rs, src/src/config.rs, src/src/types.rs).              *)
(*                                                                         *)
(* Representation.                                                         *)
(*  - Time is counted in ticks, TicksPerSec ticks to the second, so that   *)
(*    chrono's sub-second timestamps and the truncation done by            *)
(*    Duration::num_seconds() are both visible.                            *)
(*  - Token balances (f64 in the source) are exact rationals, stored as    *)
(*    multiples of 1/60 token: OneToken units make 1.0 token.  With that   *)
(*    scale refill_rate_per_second() = rate_limit_per_minute / 60.0 is a   *)
(*    whole number of units.  Floating point rounding is modelled in       *)
(*    SpecRate only, and the values of f64 that are no numbers in          *)
(*    SpecConfig only.                                                     *)
(*  - Option<T> is a sequence of length at most one: <<>> is None and      *)
(*    <<x>> is Some(x).                                                    *)
(*  - The DashMap is a function whose domain is the set of stored keys.    *)
(*                                                                         *)
(* Spec is the engine driven by callers whose calls do not overlap: each   *)
(* action is one complete call of a public method.  A call that creates an *)
(* entry reads the clock twice (its own `now`, then Utc::now() inside      *)
(* RateLimitEntry::new); the second reading may fall one tick later.       *)
(* SpecRefill and SpecKeys are the same engine under the configurations of *)
(* two tests of src/src/tests.rs; SpecConc lets calls overlap, one step    *)
(* per clock reading and per access to the map; SpecMw drives the engine   *)
(* through rate_limit_middleware (src/src/middleware.rs,                   *)
(* src/src/screener.rs).  SpecScreen builds and uses a RequestScreener;    *)
(* SpecObs adds the observer tasks to the checks; SpecLin runs two calls   *)
(* in parallel on a prepared store; SpecConfig applies the setters of      *)
(* RateLimitConfig to f64 values; SpecRate computes the refill in f64      *)
(* arithmetic; SpecBurst runs checks in parallel on one entry, the guard   *)
(* of the entry being explicit.                                            *)
(*                                                                         *)
(* State: config, clock and cache are the program's; spawned counts the    *)
(* on_blocked tasks handed to tokio::spawn; screener is the optional       *)
(* RequestScreener of the limiter; inflight holds the calls and requests   *)
(* still in progress (none in Spec); horizon is the last tick of           *)
(* the run; last and hist are history variables (the last completed call,  *)
(* and what has happened to each entry since it was created) read only by  *)
(* the properties.                                                         *)
(***************************************************************************)
EXTENDS Integers, Sequences, FiniteSets, TLC

\* ------------------------------------------------------------------------
\* Bounds of the model
\* ------------------------------------------------------------------------
TicksPerSec == 2
MaxTime == 6
MaxDebt == 1

\* Client keys.  Spec is driven by the callers of one client.
Keys == {"k1", "k2"}
Clients == {"k1"}

\* ------------------------------------------------------------------------
\* Configuration (src/src/config.rs)
\* ------------------------------------------------------------------------
SecondsPerMinute == 60
OneToken == SecondsPerMinute

Rates == {1, 2}
BlockDurations == {1, 2}
GracePeriods == {0, 1}

\* Default::default(): cache_refund_ratio 0.5 and error_penalty_tokens 2.0,
\* in units of 1/60 token
DefaultCacheRefundRatio == OneToken \div 2
DefaultErrorPenaltyTokens == 2 * OneToken

RateLimitConfig ==
  [rate_limit_per_minute : Rates,
   block_duration : BlockDurations,
   grace_period_seconds : GracePeriods,
   cache_refund_ratio : {DefaultCacheRefundRatio},
   error_penalty_tokens : {DefaultErrorPenaltyTokens}]

max_tokens(cfg) == cfg.rate_limit_per_minute * OneToken

\* Mutant: the division is done on the integer rate, before the conversion.
refill_rate_per_second_truncated(cfg) ==
  (cfg.rate_limit_per_minute \div SecondsPerMinute) * OneToken

refill_rate_per_second(cfg) ==
  (cfg.rate_limit_per_minute * OneToken) \div SecondsPerMinute

\* chrono::Duration::from_std(config.block_duration), in ticks
block_duration_chrono(cfg) == cfg.block_duration * TicksPerSec

\* ------------------------------------------------------------------------
\* Helpers
\* ------------------------------------------------------------------------
Min(a, b) == IF a <= b THEN a ELSE b
Max(a, b) == IF a >= b THEN a ELSE b

\* Mutant: a started second counts as a whole one (rounding up).
num_seconds_ceil(d) ==
  IF d >= 0 THEN (d + TicksPerSec - 1) \div TicksPerSec
  ELSE 0 - ((0 - d) \div TicksPerSec)

\* chrono::Duration::num_seconds(): whole seconds, truncated toward zero
num_seconds(d) ==
  IF d >= 0 THEN d \div TicksPerSec ELSE 0 - ((0 - d) \div TicksPerSec)

\* ------------------------------------------------------------------------
\* Entries (src/src/types.rs)
\* ------------------------------------------------------------------------
NewEntry(initial_tokens, now) ==
  [tokens |-> initial_tokens,
   last_refill |-> now,
   created_at |-> now,
   blocked_until |-> <<>>]

\* `if let Some(blocked_until) = entry.blocked_until { now < blocked_until }`
ActiveBlock(e, now) ==
  /\ e.blocked_until # <<>>
  /\ now < e.blocked_until[1]

VARIABLES config, screener, horizon, clock, cache, spawned, inflight, last, hist

vars == <<config, screener, horizon, clock, cache, spawned, inflight, last, hist>>

\* What a call of the engine made on its own never touches: the
\* configuration, the screener, the last tick of the run, the calls still in
\* progress.
fixed == <<config, screener, horizon, inflight>>

\* Amounts handed to refund_tokens: the default cache_refund_ratio (half a
\* token) and twice the whole bucket.
RefundAmounts(cfg) == {OneToken \div 2, 2 * max_tokens(cfg)}

\* Amounts handed to consume_additional_tokens: half a token and the default
\* error_penalty_tokens (two tokens).
PenaltyAmounts == {OneToken \div 2, 2 * OneToken}

\* Mutant: one entry is shared by every stored key.
PutShared(c, k, e) == [x \in (DOMAIN c) \cup {k} |-> e]

\* DashMap insert / overwrite of one key
Put(c, k, e) == [x \in (DOMAIN c) \cup {k} |-> IF x = k THEN e ELSE c[x]]

\* ------------------------------------------------------------------------
\* check_rate_limit (src/src/limiter.rs)
\* ------------------------------------------------------------------------
Ret(allowed, newly_blocked, remaining) ==
  [allowed |-> allowed, newly_blocked |-> newly_blocked, remaining |-> remaining]

\* Mutant: the comparison of the fast path reversed.
AlreadyBlockedReversed(c, k, now) ==
  /\ k \in DOMAIN c
  /\ c[k].blocked_until # <<>>
  /\ c[k].blocked_until[1] < now

\* lines 42-48: the read-only fast path for a key under an active block
AlreadyBlocked(c, k, now) ==
  /\ k \in DOMAIN c
  /\ ActiveBlock(c[k], now)

\* Mutant: the entry of a key seen for the first time starts empty.
GetOrInsertEmpty(c, k, created, cfg) ==
  IF k \in DOMAIN c THEN c[k] ELSE NewEntry(0, created)

\* lines 51-54: entry(key).or_insert_with(|| RateLimitEntry::new(max_tokens));
\* created is the clock as RateLimitEntry::new reads it
GetOrInsert(c, k, created, cfg) ==
  IF k \in DOMAIN c THEN c[k] ELSE NewEntry(max_tokens(cfg), created)

\* lines 56-57
InGrace(e, now, cfg) ==
  num_seconds(now - e.created_at) < cfg.grace_period_seconds

\* lines 61-67
Refill(e, now, cfg) ==
  LET elapsed == Max(num_seconds(now - e.last_refill), 0)
      refill_rate == refill_rate_per_second(cfg)
  IN  [e EXCEPT !.tokens = Min(e.tokens + elapsed * refill_rate, max_tokens(cfg)),
                !.last_refill = now]

\* Mutant: the threshold is "more than one token" instead of "at least one".
AdmitAboveOne(e, now, cfg) ==
  IF e.tokens > OneToken
  THEN [entry |-> [e EXCEPT !.tokens = e.tokens - OneToken],
        ret |-> Ret(TRUE, FALSE, e.tokens - OneToken),
        spawn |-> FALSE]
  ELSE IF e.blocked_until = <<>>
       THEN [entry |-> [e EXCEPT !.blocked_until = <<now + block_duration_chrono(cfg)>>],
             ret |-> Ret(FALSE, TRUE, 0),
             spawn |-> TRUE]
       ELSE [entry |-> e, ret |-> Ret(FALSE, FALSE, 0), spawn |-> FALSE]

\* Mutant: any positive balance is enough to consume a token.
AdmitPositive(e, now, cfg) ==
  IF e.tokens > 0
  THEN [entry |-> [e EXCEPT !.tokens = e.tokens - OneToken],
        ret |-> Ret(TRUE, FALSE, e.tokens - OneToken),
        spawn |-> FALSE]
  ELSE IF e.blocked_until = <<>>
       THEN [entry |-> [e EXCEPT !.blocked_until = <<now + block_duration_chrono(cfg)>>],
             ret |-> Ret(FALSE, TRUE, 0),
             spawn |-> TRUE]
       ELSE [entry |-> e, ret |-> Ret(FALSE, FALSE, 0), spawn |-> FALSE]

\* Mutant: the balance is returned as it was before the token was taken.
AdmitStaleRemaining(e, now, cfg) ==
  IF e.tokens >= OneToken
  THEN [entry |-> [e EXCEPT !.tokens = e.tokens - OneToken],
        ret |-> Ret(TRUE, FALSE, e.tokens),
        spawn |-> FALSE]
  ELSE IF e.blocked_until = <<>>
       THEN [entry |-> [e EXCEPT !.blocked_until = <<now + block_duration_chrono(cfg)>>],
             ret |-> Ret(FALSE, TRUE, 0),
             spawn |-> TRUE]
       ELSE [entry |-> e, ret |-> Ret(FALSE, FALSE, 0), spawn |-> FALSE]

\* Mutant: the observer is notified on every denial of the bucket path.
AdmitNotifyEveryDenial(e, now, cfg) ==
  IF e.tokens >= OneToken
  THEN [entry |-> [e EXCEPT !.tokens = e.tokens - OneToken],
        ret |-> Ret(TRUE, FALSE, e.tokens - OneToken),
        spawn |-> FALSE]
  ELSE IF e.blocked_until = <<>>
       THEN [entry |-> [e EXCEPT !.blocked_until = <<now + block_duration_chrono(cfg)>>],
             ret |-> Ret(FALSE, TRUE, 0),
             spawn |-> TRUE]
       ELSE [entry |-> e, ret |-> Ret(FALSE, FALSE, 0), spawn |-> TRUE]

\* Mutant: a denial blocks whenever no block is running, whether or not
\* the entry was blocked before.
AdmitBlockingAgain(e, now, cfg) ==
  IF e.tokens >= OneToken
  THEN [entry |-> [e EXCEPT !.tokens = e.tokens - OneToken],
        ret |-> Ret(TRUE, FALSE, e.tokens - OneToken),
        spawn |-> FALSE]
  ELSE IF ~ActiveBlock(e, now)
       THEN [entry |-> [e EXCEPT !.blocked_until = <<now + block_duration_chrono(cfg)>>],
             ret |-> Ret(FALSE, TRUE, 0),
             spawn |-> TRUE]
       ELSE [entry |-> e, ret |-> Ret(FALSE, FALSE, 0), spawn |-> FALSE]

\* lines 69-100: consume one token, or deny and block a never-blocked entry
Admit(e, now, cfg) ==
  IF e.tokens >= OneToken
  THEN [entry |-> [e EXCEPT !.tokens = e.tokens - OneToken],
        ret |-> Ret(TRUE, FALSE, e.tokens - OneToken),
        spawn |-> FALSE]
  ELSE IF e.blocked_until = <<>>
       THEN [entry |-> [e EXCEPT !.blocked_until = <<now + block_duration_chrono(cfg)>>],
             ret |-> Ret(FALSE, TRUE, 0),
             spawn |-> TRUE]
       ELSE [entry |-> e, ret |-> Ret(FALSE, FALSE, 0), spawn |-> FALSE]

\* lines 51-100: what the call does while it holds the entry of its key
check_entry(c, k, now, created, cfg) ==
  LET e == GetOrInsert(c, k, created, cfg)
  IN  IF InGrace(e, now, cfg)
      THEN [cache |-> Put(c, k, e),
            ret |-> Ret(TRUE, FALSE, max_tokens(cfg)),
            spawn |-> FALSE, path |-> "grace"]
      ELSE LET r == Admit(Refill(e, now, cfg), now, cfg)
           IN  [cache |-> Put(c, k, r.entry), ret |-> r.ret,
                spawn |-> r.spawn, path |-> "bucket"]

\* lines 34-101: the whole call.  path names the return statement taken.
check_rate_limit(c, k, now, created, cfg) ==
  IF AlreadyBlocked(c, k, now)
  THEN [cache |-> c, ret |-> Ret(FALSE, FALSE, 0), spawn |-> FALSE, path |-> "fast"]
  ELSE check_entry(c, k, now, created, cfg)

\* ------------------------------------------------------------------------
\* The other public operations (src/src/limiter.rs)
\* ------------------------------------------------------------------------
\* Mutant: the refund is not capped.
refund_tokens_uncapped(c, k, amount, cfg) ==
  IF k \in DOMAIN c
  THEN [c EXCEPT ![k].tokens = c[k].tokens + amount]
  ELSE c

\* Mutant: a refund for an unknown key creates its entry.
refund_tokens_inserting(c, k, amount, cfg) ==
  LET e == GetOrInsert(c, k, 0, cfg)
  IN  Put(c, k, [e EXCEPT !.tokens = Min(e.tokens + amount, max_tokens(cfg))])

\* lines 134-146
refund_tokens(c, k, amount, cfg) ==
  IF k \in DOMAIN c
  THEN [c EXCEPT ![k].tokens = Min(c[k].tokens + amount, max_tokens(cfg))]
  ELSE c

\* Mutant: the penalty is floored at an empty bucket.
consume_additional_tokens_floored(c, k, amount) ==
  IF k \in DOMAIN c
  THEN [c EXCEPT ![k].tokens = Max(c[k].tokens - amount, 0)]
  ELSE c

\* Mutant: the penalty is added instead of taken.
consume_additional_tokens_added(c, k, amount) ==
  IF k \in DOMAIN c
  THEN [c EXCEPT ![k].tokens = c[k].tokens + amount]
  ELSE c

\* lines 148-159
consume_additional_tokens(c, k, amount) ==
  IF k \in DOMAIN c
  THEN [c EXCEPT ![k].tokens = c[k].tokens - amount]
  ELSE c

\* Mutant: a block that is still running is left as it is.
block_immediately_keeping(c, k, now, created, cfg) ==
  LET e == GetOrInsert(c, k, created, cfg)
  IN  Put(c, k, [e EXCEPT !.tokens = 0,
                          !.blocked_until =
                             IF ActiveBlock(e, now) THEN e.blocked_until
                             ELSE <<now + block_duration_chrono(cfg)>>])

\* lines 167-180
block_immediately(c, k, now, created, cfg) ==
  LET e == GetOrInsert(c, k, created, cfg)
  IN  Put(c, k, [e EXCEPT !.tokens = 0,
                          !.blocked_until = <<now + block_duration_chrono(cfg)>>])

\* Mutant: an entry idle for exactly the retention period is kept.
RetainedInclusive(e, now, cfg) ==
  \/ ActiveBlock(e, now)
  \/ now - e.last_refill <= block_duration_chrono(cfg) * 2

\* lines 111-120: the retain predicate of cleanup_cache
Retained(e, now, cfg) ==
  \/ ActiveBlock(e, now)
  \/ now - e.last_refill < block_duration_chrono(cfg) * 2

\* lines 103-132
cleanup_cache(c, now, cfg) ==
  [k \in {x \in DOMAIN c : Retained(c[x], now, cfg)} |-> c[k]]

\* ------------------------------------------------------------------------
\* History kept for the properties
\* ------------------------------------------------------------------------
\* hist[k] describes the entry of key k since it was created.  While pure
\* (nothing but checks and penalties, and no refill that added tokens) it
\* counts the tokens consumed by checks, the denied checks (0, 1, 2 = two or
\* more) and the tokens taken by penalties; once the entry has been refunded,
\* refilled or force-blocked the counts are dropped.
FreshHist ==
  [pure |-> TRUE, consumed |-> 0, denied |-> 0, penalty |-> 0,
   penalized |-> FALSE, blocked_imm |-> FALSE]

Spoil(h) == [h EXCEPT !.pure = FALSE, !.consumed = 0, !.denied = 0, !.penalty = 0]

HistOf(k) == IF k \in DOMAIN cache THEN hist[k] ELSE FreshHist

Opt(c, k) == IF k \in DOMAIN c THEN <<c[k]>> ELSE <<>>

NoRet == Ret(FALSE, FALSE, 0)

\* The call that has just completed (op = "tick" after the clock advanced
\* on its own): its name, key, amount, the `now` it read, the entry it found,
\* what it returned, the return statement it took, whether it spawned the
\* observer.
Last(op, k, now, amount, pre, ret, path, spawn) ==
  [op |-> op, key |-> k, now |-> now, amount |-> amount, pre |-> pre,
   ret |-> ret, path |-> path, spawn |-> spawn]

NoLast(op) == Last(op, "k1", 0, 0, <<>>, NoRet, "", FALSE)

\* The clock readings RateLimitEntry::new can take in a call on key k that
\* read `now` from the clock: none is taken when the entry exists.
CreatedAt(k) ==
  IF k \in DOMAIN cache THEN {clock}
  ELSE {t \in {clock, clock + 1} : t <= horizon}

\* ------------------------------------------------------------------------
\* Specification
\* ------------------------------------------------------------------------
Init ==
  /\ config \in RateLimitConfig
  /\ screener = <<>>
  /\ horizon = MaxTime
  /\ inflight = <<>>
  /\ clock = 0
  /\ cache = [k \in {} |-> NewEntry(0, 0)]
  /\ spawned = [k \in Keys |-> 0]
  /\ last = NoLast("new")
  /\ hist = [k \in Keys |-> FreshHist]

\* Utc::now() advances
Tick ==
  /\ clock < horizon
  /\ clock' = clock + 1
  /\ last' = NoLast("tick")
  /\ UNCHANGED <<fixed, cache, spawned, hist>>

Check(k) ==
  \E created \in CreatedAt(k) :
  LET r == check_rate_limit(cache, k, clock, created, config)
      h0 == HistOf(k)
      e0 == GetOrInsert(cache, k, created, config)
      credited == r.path = "bucket" /\ Refill(e0, clock, config).tokens # e0.tokens
      h1 == IF credited \/ ~h0.pure
            THEN Spoil(h0)
            ELSE [h0 EXCEPT
                    !.consumed = IF r.path = "bucket" /\ r.ret.allowed THEN @ + 1 ELSE @,
                    !.denied = IF r.ret.allowed THEN @ ELSE Min(@ + 1, 2)]
  IN  /\ cache' = r.cache
      /\ spawned' = IF r.spawn THEN [spawned EXCEPT ![k] = @ + 1] ELSE spawned
      /\ hist' = [hist EXCEPT ![k] = h1]
      /\ last' = Last("check", k, clock, 0, Opt(cache, k), r.ret, r.path, r.spawn)
      /\ clock' = created
      /\ UNCHANGED fixed

Refund(k, amount) ==
  /\ cache' = refund_tokens(cache, k, amount, config)
  /\ hist' = [hist EXCEPT ![k] = Spoil(HistOf(k))]
  /\ last' = Last("refund", k, clock, amount, Opt(cache, k), NoRet, "", FALSE)
  /\ UNCHANGED <<fixed, clock, spawned>>

Penalize(k, amount) ==
  /\ k \in DOMAIN cache => cache[k].tokens - amount >= 0 - MaxDebt * OneToken
  /\ cache' = consume_additional_tokens(cache, k, amount)
  /\ hist' = IF k \in DOMAIN cache
             THEN [hist EXCEPT ![k].penalized = TRUE,
                               ![k].penalty = IF hist[k].pure THEN @ + amount ELSE 0]
             ELSE hist
  /\ last' = Last("penalize", k, clock, amount, Opt(cache, k), NoRet, "", FALSE)
  /\ UNCHANGED <<fixed, clock, spawned>>

BlockImmediately(k) ==
  \E created \in CreatedAt(k) :
  /\ cache' = block_immediately(cache, k, clock, created, config)
  /\ hist' = [hist EXCEPT ![k] = [Spoil(HistOf(k)) EXCEPT !.blocked_imm = TRUE]]
  /\ last' = Last("block_immediately", k, clock, 0, Opt(cache, k), NoRet, "", FALSE)
  /\ clock' = created
  /\ UNCHANGED <<fixed, spawned>>

\* The history of a removed entry is dropped with it; of the store the
\* sweep found, last keeps the entry of the first client.
Cleanup ==
  /\ cache' = cleanup_cache(cache, clock, config)
  /\ hist' = [k \in Keys |-> IF k \in DOMAIN cache' THEN hist[k] ELSE FreshHist]
  /\ last' = Last("cleanup", "k1", clock, 0, Opt(cache, "k1"), NoRet, "", FALSE)
  /\ UNCHANGED <<fixed, clock, spawned>>

Next ==
  \/ Tick
  \/ \E k \in Clients : Check(k)
  \/ \E k \in Clients : \E a \in RefundAmounts(config) : Refund(k, a)
  \/ \E k \in Clients : \E a \in PenaltyAmounts : Penalize(k, a)
  \/ \E k \in Clients : BlockImmediately(k)
  \/ Cleanup

Spec == Init /\ [][Next]_vars

\* ------------------------------------------------------------------------
\* SpecRefill: the engine as test_token_refill_over_time (src/src/tests.rs)
\* configures it, RateLimitConfig::new(10, Duration::from_secs(5))
\* .with_grace_period(0), for RefillSeconds seconds: one client whose
\* requests are checked and screened but neither refunded nor penalized,
\* and the sweeper.
\* ------------------------------------------------------------------------
RefillSeconds == 7

RefillTestConfig ==
  [rate_limit_per_minute |-> 10, block_duration |-> 5, grace_period_seconds |-> 0,
   cache_refund_ratio |-> DefaultCacheRefundRatio,
   error_penalty_tokens |-> DefaultErrorPenaltyTokens]

InitRefill ==
  /\ config = RefillTestConfig
  /\ screener = <<>>
  /\ horizon = RefillSeconds * TicksPerSec
  /\ inflight = <<>>
  /\ clock = 0
  /\ cache = [k \in {} |-> NewEntry(0, 0)]
  /\ spawned = [k \in Keys |-> 0]
  /\ last = NoLast("new")
  /\ hist = [k \in Keys |-> FreshHist]

NextRefill ==
  \/ Tick
  \/ \E k \in Clients : Check(k)
  \/ \E k \in Clients : BlockImmediately(k)
  \/ Cleanup

SpecRefill == InitRefill /\ [][NextRefill]_vars

\* ------------------------------------------------------------------------
\* SpecKeys: the engine driven by the non-overlapping calls of two clients
\* (as in test_different_ips_independent_limits, src/src/tests.rs) and the
\* sweeper, with a bucket of one token, a block of one second and no grace,
\* for KeysMaxTime ticks.  Both clients are checked and force-blocked; the
\* responses of the first are also refunded and penalized, by half a token.
\* ------------------------------------------------------------------------
KeysMaxTime == 3

KeysConfigs ==
  {cfg \in RateLimitConfig :
     /\ cfg.rate_limit_per_minute = 1
     /\ cfg.block_duration = 1
     /\ cfg.grace_period_seconds = 0}

InitKeys ==
  /\ config \in KeysConfigs
  /\ screener = <<>>
  /\ horizon = KeysMaxTime
  /\ inflight = <<>>
  /\ clock = 0
  /\ cache = [k \in {} |-> NewEntry(0, 0)]
  /\ spawned = [k \in Keys |-> 0]
  /\ last = NoLast("new")
  /\ hist = [k \in Keys |-> FreshHist]

NextKeys ==
  \/ Tick
  \/ \E k \in Keys : Check(k)
  \/ \E k \in Clients : Refund(k, OneToken \div 2)
  \/ \E k \in Clients : Penalize(k, OneToken \div 2)
  \/ \E k \in Keys : BlockImmediately(k)
  \/ Cleanup

SpecKeys == InitKeys /\ [][NextKeys]_vars

\* ------------------------------------------------------------------------
\* SpecConc: the calls of one client and the sweeper, made by tasks that
\* run in parallel, for ConcMaxTime ticks.  A call that reads the clock
\* (check_rate_limit, block_immediately, cleanup_cache) does so in a step
\* of its own, before it reaches the map; each access to the map (get,
\* entry, get_mut, retain on the shard of the key) is one step.
\* inflight[t] is the call task t is in: the operation, its key, the `now`
\* it read and the access it is about to make.  The counts of hist are not
\* kept.
\* ------------------------------------------------------------------------
ConcMaxTime == 3

Tasks == {"t1", "t2"}

ConcConfig ==
  [rate_limit_per_minute |-> 1, block_duration |-> 1, grace_period_seconds |-> 0,
   cache_refund_ratio |-> DefaultCacheRefundRatio,
   error_penalty_tokens |-> DefaultErrorPenaltyTokens]

Call(op, k, now, pc) == [op |-> op, key |-> k, now |-> now, pc |-> pc]

Idle == Call("", "k1", 0, "idle")

InitConc ==
  /\ config = ConcConfig
  /\ screener = <<>>
  /\ horizon = ConcMaxTime
  /\ inflight = [t \in Tasks |-> Idle]
  /\ clock = 0
  /\ cache = [k \in {} |-> NewEntry(0, 0)]
  /\ spawned = [k \in Keys |-> 0]
  /\ last = NoLast("new")
  /\ hist = [k \in Keys |-> FreshHist]

\* `let now = Utc::now();` (lines 40, 104, 168)
Begin(t, op, k) ==
  /\ inflight[t].pc = "idle"
  /\ inflight' = [inflight EXCEPT ![t] =
                    Call(op, k, clock, IF op = "check" THEN "get"
                                       ELSE IF op = "cleanup" THEN "retain"
                                       ELSE "entry")]
  /\ last' = NoLast("begin")
  /\ UNCHANGED <<config, screener, horizon, clock, cache, spawned, hist>>

\* lines 42-48: the fast path, under the read guard of get(key)
CheckGet(t) ==
  LET c == inflight[t]
  IN  /\ c.op = "check" /\ c.pc = "get"
      /\ IF AlreadyBlocked(cache, c.key, c.now)
         THEN /\ inflight' = [inflight EXCEPT ![t] = Idle]
              /\ last' = Last("check", c.key, c.now, 0, Opt(cache, c.key),
                              Ret(FALSE, FALSE, 0), "fast", FALSE)
         ELSE /\ inflight' = [inflight EXCEPT ![t].pc = "entry"]
              /\ last' = NoLast("get")
      /\ UNCHANGED <<config, screener, horizon, clock, cache, spawned, hist>>

\* lines 51-100, under the write guard of entry(key); RateLimitEntry::new
\* reads the clock as it is then
CheckEntry(t) ==
  LET c == inflight[t]
      r == check_entry(cache, c.key, c.now, clock, config)
  IN  /\ c.op = "check" /\ c.pc = "entry"
      /\ cache' = r.cache
      /\ spawned' = IF r.spawn THEN [spawned EXCEPT ![c.key] = @ + 1] ELSE spawned
      /\ hist' = [hist EXCEPT ![c.key] = Spoil(HistOf(c.key))]
      /\ inflight' = [inflight EXCEPT ![t] = Idle]
      /\ last' = Last("check", c.key, c.now, 0, Opt(cache, c.key), r.ret, r.path, r.spawn)
      /\ UNCHANGED <<config, screener, horizon, clock>>

\* lines 170-179 of block_immediately, under the write guard of entry(key)
BlockEntry(t) ==
  LET c == inflight[t]
  IN  /\ c.op = "block_immediately" /\ c.pc = "entry"
      /\ cache' = block_immediately(cache, c.key, c.now, clock, config)
      /\ hist' = [hist EXCEPT ![c.key] =
                    [Spoil(HistOf(c.key)) EXCEPT !.blocked_imm = TRUE]]
      /\ inflight' = [inflight EXCEPT ![t] = Idle]
      /\ last' = Last("block_immediately", c.key, c.now, 0, Opt(cache, c.key),
                      NoRet, "", FALSE)
      /\ UNCHANGED <<config, screener, horizon, clock, spawned>>

\* lines 111-120 of cleanup_cache: retain, under the write guard of the
\* shard that holds the entries of the client
SweepRetain(t) ==
  LET c == inflight[t]
  IN  /\ c.op = "cleanup" /\ c.pc = "retain"
      /\ cache' = cleanup_cache(cache, c.now, config)
      /\ hist' = [k \in Keys |-> IF k \in DOMAIN cache' THEN hist[k] ELSE FreshHist]
      /\ inflight' = [inflight EXCEPT ![t] = Idle]
      /\ last' = Last("cleanup", c.key, c.now, 0, Opt(cache, c.key), NoRet, "", FALSE)
      /\ UNCHANGED <<config, screener, horizon, clock, spawned>>

NextConc ==
  \/ Tick
  \/ \E t \in Tasks : \E k \in Clients :
       \E op \in {"check", "block_immediately", "cleanup"} : Begin(t, op, k)
  \/ \E t \in Tasks : CheckGet(t)
  \/ \E t \in Tasks : CheckEntry(t)
  \/ \E t \in Tasks : BlockEntry(t)
  \/ \E t \in Tasks : SweepRetain(t)
  \/ \E k \in Clients : Refund(k, OneToken \div 2)
  \/ \E k \in Clients : Penalize(k, OneToken \div 2)

SpecConc == InitConc /\ [][NextConc]_vars

\* ------------------------------------------------------------------------
\* Request screening (src/src/screener.rs).  Strings are sequences of
\* characters.  The path patterns of the model are regular expressions made
\* of literal characters, of "$" (the end of the text) and of "(", which is
\* never closed and so does not compile.
\* ------------------------------------------------------------------------
\* str::contains
Contains(s, p) ==
  \E i \in 0..(Len(s) - Len(p)) : SubSeq(s, i + 1, i + Len(p)) = p

\* str::to_lowercase, on the letters the model uses
LowerChar(ch) == IF ch = "Z" THEN "z" ELSE IF ch = "G" THEN "g" ELSE ch

to_lowercase(s) == [i \in 1..Len(s) |-> LowerChar(s[i])]

\* Regex::new(p).is_ok()
Compiles(p) == \A i \in 1..Len(p) : p[i] # "("

\* Regex::is_match: the pattern is searched for anywhere in the text; one
\* that ends with "$" has to end where the text ends
is_match(p, s) ==
  LET anchored == Len(p) > 0 /\ p[Len(p)] = "$"
      body == IF anchored THEN SubSeq(p, 1, Len(p) - 1) ELSE p
  IN  /\ \A i \in 1..Len(body) : body[i] # "$"
      /\ IF anchored
         THEN /\ Len(body) <= Len(s)
              /\ SubSeq(s, Len(s) - Len(body) + 1, Len(s)) = body
         ELSE Contains(s, body)

\* Result<RequestScreener, regex::Error>
Ok(value) == [ok |-> TRUE, value |-> value]

Err(error) == [ok |-> FALSE, error |-> error]

\* Mutant: a pattern that does not compile is left out of the screener.
RequestScreener_new_lenient(scfg) ==
  Ok([path_patterns |-> SelectSeq(scfg.path_patterns, Compiles),
      user_agent_patterns |->
        [i \in 1..Len(scfg.user_agent_patterns) |->
           to_lowercase(scfg.user_agent_patterns[i])]])

\* lines 122-139: RequestScreener::new; collect() stops at the first pattern
\* that does not compile and returns its error
RequestScreener_new(scfg) ==
  LET bad == {i \in 1..Len(scfg.path_patterns) : ~Compiles(scfg.path_patterns[i])}
  IN  IF bad # {}
      THEN Err(scfg.path_patterns[CHOOSE i \in bad : \A j \in bad : i <= j])
      ELSE Ok([path_patterns |-> scfg.path_patterns,
               user_agent_patterns |->
                 [i \in 1..Len(scfg.user_agent_patterns) |->
                    to_lowercase(scfg.user_agent_patterns[i])]])

\* The first pattern of the list found in s, if any (the `for` loop of
\* lines 153-159 returns at the first hit)
FirstMatch(patterns, s) ==
  LET hits == {i \in 1..Len(patterns) : Contains(s, patterns[i])}
  IN  IF hits = {} THEN <<>>
      ELSE <<patterns[CHOOSE i \in hits : \A j \in hits : i <= j]>>

\* The first path pattern of the list whose regex matches s, if any (the
\* `for` loop of lines 143-149)
FirstRegexMatch(patterns, s) ==
  LET hits == {i \in 1..Len(patterns) : is_match(patterns[i], s)}
  IN  IF hits = {} THEN <<>>
      ELSE <<patterns[CHOOSE i \in hits : \A j \in hits : i <= j]>>

\* Mutant: the user-agent is looked at before the path.
screener_check_agent_first(scr, path, user_agent) ==
  LET p == FirstRegexMatch(scr.path_patterns, path)
      u == FirstMatch(scr.user_agent_patterns, to_lowercase(user_agent))
  IN  IF u # <<>> THEN <<[reason |-> "MaliciousUserAgent", pattern |-> u[1]]>>
      ELSE IF p # <<>> THEN <<[reason |-> "MaliciousPath", pattern |-> p[1]]>>
      ELSE <<>>

\* Mutant: the user-agent is compared as it was sent.
screener_check_case_sensitive(scr, path, user_agent) ==
  LET p == FirstRegexMatch(scr.path_patterns, path)
      u == FirstMatch(scr.user_agent_patterns, user_agent)
  IN  IF p # <<>> THEN <<[reason |-> "MaliciousPath", pattern |-> p[1]]>>
      ELSE IF u # <<>> THEN <<[reason |-> "MaliciousUserAgent", pattern |-> u[1]]>>
      ELSE <<>>

\* lines 141-162: RequestScreener::check
screener_check(scr, path, user_agent) ==
  LET p == FirstRegexMatch(scr.path_patterns, path)
      u == FirstMatch(scr.user_agent_patterns, to_lowercase(user_agent))
  IN  IF p # <<>> THEN <<[reason |-> "MaliciousPath", pattern |-> p[1]]>>
      ELSE IF u # <<>> THEN <<[reason |-> "MaliciousUserAgent", pattern |-> u[1]]>>
      ELSE <<>>

\* ------------------------------------------------------------------------
\* rate_limit_middleware (src/src/middleware.rs)
\* ------------------------------------------------------------------------
\* http::StatusCode::is_client_error, is_server_error
is_client_error(status) == status >= 400 /\ status <= 499

is_server_error(status) == status >= 500 /\ status <= 599

\* Mutant: the request is screened before the verdict of the check is looked
\* at.
outcome_screen_first(is_allowed, flagged) ==
  IF flagged THEN "screened"
  ELSE IF ~is_allowed THEN "rate_limited"
  ELSE "forward"

\* lines 61, 87-88, 110: what becomes of a request that has been checked
outcome(is_allowed, flagged) ==
  IF ~is_allowed THEN "rate_limited"
  ELSE IF flagged THEN "screened"
  ELSE "forward"

\* Mutant: a request without a SecurityContext is handled like any other.
handling_without_context(ctx, is_allowed, flagged) == outcome(is_allowed, flagged)

\* lines 42-48: a request without a SecurityContext in its extensions is
\* answered at once, before anything else is looked at
handling(ctx, is_allowed, flagged) ==
  IF ~ctx THEN "no_context" ELSE outcome(is_allowed, flagged)

\* lines 87-88: the screener, if the limiter has one, looks at the request
screen(scr, path, user_agent) ==
  IF scr = <<>> THEN <<>> ELSE screener_check(scr[1], path, user_agent)

\* Mutant: a flagged request is answered without blocking its key.
screening_block_skipped(c, k, now, cfg) == c

\* line 97: limiter.block_immediately(&rate_limit_key); the entry exists, the
\* check that allowed the request has stored it
screening_block(c, k, now, cfg) == block_immediately(c, k, now, now, cfg)

\* Mutant: only server errors are penalized.
adjustment_server_errors(status, cfg) ==
  IF status = 304
  THEN <<[op |-> "refund", amount |-> cfg.cache_refund_ratio]>>
  ELSE IF is_server_error(status)
       THEN <<[op |-> "penalize", amount |-> cfg.error_penalty_tokens]>>
       ELSE <<>>

\* lines 114-124: the adjustment the status of the response calls for
adjustment(status, cfg) ==
  IF status = 304
  THEN <<[op |-> "refund", amount |-> cfg.cache_refund_ratio]>>
  ELSE IF is_client_error(status) \/ is_server_error(status)
       THEN <<[op |-> "penalize", amount |-> cfg.error_penalty_tokens]>>
       ELSE <<>>

\* lines 116, 121: the call the adjustment makes
adjust(c, k, adj, cfg) ==
  IF adj = <<>> THEN c
  ELSE IF adj[1].op = "refund" THEN refund_tokens(c, k, adj[1].amount, cfg)
  ELSE consume_additional_tokens(c, k, adj[1].amount)

\* ------------------------------------------------------------------------
\* SpecMw: requests of one client passing through rate_limit_middleware,
\* and the sweeper, for MwMaxTime ticks.  The calls the middleware makes on
\* the engine do not overlap, but a request that has been forwarded waits
\* for the downstream handler (`next.run(request).await`) while other
\* requests arrive and are answered.  inflight[r] is the request waiting in
\* slot r; last is the request answered last (or a tick, or a sweep): what
\* it carried, what the middleware did for it and the answer it got.  hist
\* is not kept.
\* ------------------------------------------------------------------------
MwMaxTime == 4

Requests == {"r1", "r2"}

Paths == {<<"/">>, <<"/", ".", "e">>}

UserAgents == {<<"m">>, <<"z", "G">>}

\* What the downstream handler may answer.
Statuses == {200, 301, 304, 404, 500}

MwScreeningConfig ==
  [path_patterns |-> << <<".", "e">> >>,
   user_agent_patterns |-> << <<"Z", "g">> >>]

MwConfig ==
  [rate_limit_per_minute |-> 2, block_duration |-> 1, grace_period_seconds |-> 0,
   cache_refund_ratio |-> DefaultCacheRefundRatio,
   error_penalty_tokens |-> DefaultErrorPenaltyTokens]

\* An empty slot.  A request has: ctx, a SecurityContext was attached;
\* check: the result of check_rate_limit, if it was called; screened: the
\* screener looked at the request; flag: what it returned; blocked:
\* block_immediately was called; forwarded: next.run was called; adjust: the
\* refund or penalty applied; response: the status answered (0: none yet).
NoRequest ==
  [op |-> "request", stage |-> "idle", ctx |-> FALSE, key |-> "k1", path |-> <<>>,
   user_agent |-> <<>>, check |-> <<>>, screened |-> FALSE, flag |-> <<>>,
   blocked |-> FALSE, forwarded |-> FALSE, adjust |-> <<>>, response |-> 0]

InitMw ==
  /\ config = MwConfig
  /\ screener \in {<<>>, <<RequestScreener_new(MwScreeningConfig).value>>}
  /\ horizon = MwMaxTime
  /\ inflight = [r \in Requests |-> NoRequest]
  /\ clock = 0
  /\ cache = [k \in {} |-> NewEntry(0, 0)]
  /\ spawned = [k \in Keys |-> 0]
  /\ last = NoLast("new")
  /\ hist = [k \in Keys |-> FreshHist]

\* lines 42-110: a request arrives and is answered or forwarded.  created is
\* the clock as an entry created by the check reads it, later the clock as
\* block_immediately reads it.
Arrive(r, ctx, k, path, user_agent) ==
  /\ inflight[r].stage = "idle"
  /\ \E created \in CreatedAt(k) :
     \E later \in {t \in {created, created + 1} : t <= horizon} :
       LET req == [NoRequest EXCEPT !.ctx = ctx, !.key = k, !.path = path,
                                    !.user_agent = user_agent]
           c == check_rate_limit(cache, k, clock, created, config)
           flag == screen(screener, path, user_agent)
           what == handling(ctx, c.ret.allowed, flag # <<>>)
           checked == [req EXCEPT !.check = <<c.ret>>]
           looked == [checked EXCEPT !.screened = screener # <<>>, !.flag = flag]
           count == IF c.spawn THEN [spawned EXCEPT ![k] = @ + 1] ELSE spawned
       IN  CASE what = "no_context" ->
                  /\ created = clock /\ later = clock
                  /\ last' = [req EXCEPT !.stage = "done", !.response = 500]
                  /\ UNCHANGED <<inflight, cache, spawned, clock>>
             [] what = "rate_limited" ->
                  /\ later = created
                  /\ last' = [checked EXCEPT !.stage = "done", !.response = 429]
                  /\ inflight' = inflight
                  /\ cache' = c.cache
                  /\ spawned' = count
                  /\ clock' = created
             [] what = "screened" ->
                  /\ last' = [looked EXCEPT !.stage = "done", !.blocked = TRUE,
                                            !.response = 418]
                  /\ inflight' = inflight
                  /\ cache' = screening_block(c.cache, k, later, config)
                  /\ spawned' = count
                  /\ clock' = later
             [] what = "forward" ->
                  /\ later = created
                  /\ inflight' = [inflight EXCEPT ![r] =
                                    [looked EXCEPT !.stage = "downstream",
                                                   !.forwarded = TRUE]]
                  /\ last' = NoLast("forward")
                  /\ cache' = c.cache
                  /\ spawned' = count
                  /\ clock' = created
  /\ UNCHANGED <<config, screener, horizon, hist>>

\* lines 110-132: the downstream handler answers and the middleware passes
\* the answer on, after the refund or the penalty its status calls for
Respond(r, status) ==
  LET req == inflight[r]
      adj == adjustment(status, config)
  IN  /\ req.stage = "downstream"
      /\ cache' = adjust(cache, req.key, adj, config)
      /\ inflight' = [inflight EXCEPT ![r] = NoRequest]
      /\ last' = [req EXCEPT !.stage = "done", !.adjust = adj, !.response = status]
      /\ UNCHANGED <<config, screener, horizon, clock, spawned, hist>>

NextMw ==
  \/ Tick
  \/ \E r \in Requests : \E ctx \in BOOLEAN : \E k \in Clients :
       \E path \in Paths : \E user_agent \in UserAgents :
         Arrive(r, ctx, k, path, user_agent)
  \/ \E r \in Requests : \E status \in Statuses : Respond(r, status)
  \/ Cleanup

SpecMw == InitMw /\ [][NextMw]_vars

\* ------------------------------------------------------------------------
\* SpecScreen: a ScreeningConfig is built pattern by pattern, up to
\* MaxPatterns of each kind, a RequestScreener is constructed from it, and
\* requests are screened.  inflight is the ScreeningConfig; screener is the
\* RequestScreener, if the construction produced one; last is the call made
\* last, with what it was given and what it returned.
\* ------------------------------------------------------------------------
MaxPatterns == 2

PathPatterns == {<<"a">>, <<"b">>, <<"a", "$">>, <<"(">>}

AgentPatterns == {<<"Z", "g">>, <<"g">>}

ScreenPaths == {<<"/">>, <<"/", "a">>, <<"/", "a", "b">>}

ScreenAgents == {<<"m">>, <<"z", "G">>, <<"G">>}

\* lines 64-69: ScreeningConfig::new
ScreeningConfig_new == [path_patterns |-> <<>>, user_agent_patterns |-> <<>>]

\* lines 71-74
with_path_pattern(scfg, pattern) ==
  [scfg EXCEPT !.path_patterns = Append(@, pattern)]

\* lines 81-84
with_user_agent_pattern(scfg, pattern) ==
  [scfg EXCEPT !.user_agent_patterns = Append(@, pattern)]

InitScreen ==
  /\ config = MwConfig
  /\ screener = <<>>
  /\ horizon = 0
  /\ inflight = ScreeningConfig_new
  /\ clock = 0
  /\ cache = [k \in {} |-> NewEntry(0, 0)]
  /\ spawned = [k \in Keys |-> 0]
  /\ last = NoLast("new")
  /\ hist = [k \in Keys |-> FreshHist]

\* The ScreeningConfig is still being built.
Building == last.op \in {"new", "with"}

WithPathPattern(pattern) ==
  /\ Building
  /\ Len(inflight.path_patterns) < MaxPatterns
  /\ inflight' = with_path_pattern(inflight, pattern)
  /\ last' = NoLast("with")
  /\ UNCHANGED <<config, screener, horizon, clock, cache, spawned, hist>>

WithUserAgentPattern(pattern) ==
  /\ Building
  /\ Len(inflight.user_agent_patterns) < MaxPatterns
  /\ inflight' = with_user_agent_pattern(inflight, pattern)
  /\ last' = NoLast("with")
  /\ UNCHANGED <<config, screener, horizon, clock, cache, spawned, hist>>

\* RequestScreener::new(&config); on Ok the screener is kept
NewScreener ==
  LET result == RequestScreener_new(inflight)
  IN  /\ Building
      /\ screener' = IF result.ok THEN <<result.value>> ELSE <<>>
      /\ last' = [op |-> "screener_new", result |-> result]
      /\ UNCHANGED <<config, horizon, inflight, clock, cache, spawned, hist>>

\* screener.check(path, user_agent)
Screen(path, user_agent) ==
  /\ screener # <<>>
  /\ last' = [op |-> "screen", path |-> path, user_agent |-> user_agent,
              result |-> screener_check(screener[1], path, user_agent)]
  /\ UNCHANGED <<config, screener, horizon, inflight, clock, cache, spawned, hist>>

NextScreen ==
  \/ \E pattern \in PathPatterns : WithPathPattern(pattern)
  \/ \E pattern \in AgentPatterns : WithUserAgentPattern(pattern)
  \/ NewScreener
  \/ \E path \in ScreenPaths : \E user_agent \in ScreenAgents :
       Screen(path, user_agent)

SpecScreen == InitScreen /\ [][NextScreen]_vars

\* ------------------------------------------------------------------------
\* SpecObs: the checks of two clients for ObsMaxTime ticks, with the tasks
\* check_rate_limit spawns for the observer.  inflight is the sequence of
\* the tasks spawned so far, each with the key it reports and its state:
\* "spawned" (not polled yet, perhaps never), "running" (inside
\* on_blocked, for as long as it likes), "completed" or "failed" (on_blocked
\* panicked; the JoinHandle is dropped, so nobody is told).  hist holds the
\* same calls made on a limiter whose observer tasks are never run: its
\* store and what its last check returned.
\* ------------------------------------------------------------------------
ObsMaxTime == 2

\* lines 91-93: tokio::spawn(async move { ... }); the handle is dropped
spawn(tasks, k) == Append(tasks, [key |-> k, state |-> "spawned"])

\* A failing observer that takes the block of its key away.
on_blocked_unblocking(c, k, ending) ==
  IF ending = "failed" /\ k \in DOMAIN c
  THEN [c EXCEPT ![k].blocked_until = <<>>]
  ELSE c

\* types.rs 56-59, limiter.rs 92: on_blocked is given the address, the path
\* and the context, none of the limiter: the store is as it was, however
\* the call ends
on_blocked(c, k, ending) == c

InitObs ==
  /\ config = ConcConfig
  /\ screener = <<>>
  /\ horizon = ObsMaxTime
  /\ inflight = <<>>
  /\ clock = 0
  /\ cache = [k \in {} |-> NewEntry(0, 0)]
  /\ spawned = [k \in Keys |-> 0]
  /\ last = NoLast("new")
  /\ hist = [cache |-> [k \in {} |-> NewEntry(0, 0)], ret |-> NoRet]

\* check_rate_limit, from the call to the return
CheckObs(k) ==
  \E created \in CreatedAt(k) :
  LET r == check_rate_limit(cache, k, clock, created, config)
      alone == check_rate_limit(hist.cache, k, clock, created, config)
  IN  /\ cache' = r.cache
      /\ spawned' = IF r.spawn THEN [spawned EXCEPT ![k] = @ + 1] ELSE spawned
      /\ inflight' = IF r.spawn THEN spawn(inflight, k) ELSE inflight
      /\ hist' = [cache |-> alone.cache, ret |-> alone.ret]
      /\ last' = Last("check", k, clock, 0, Opt(cache, k), r.ret, r.path, r.spawn)
      /\ clock' = created
      /\ UNCHANGED <<config, screener, horizon>>

\* the runtime polls the task: on_blocked is entered
ObserverRun(i) ==
  /\ i \in 1..Len(inflight)
  /\ inflight[i].state = "spawned"
  /\ inflight' = [inflight EXCEPT ![i].state = "running"]
  /\ last' = Last("observer", inflight[i].key, clock, 0,
                  Opt(cache, inflight[i].key), NoRet, "running", FALSE)
  /\ UNCHANGED <<config, screener, horizon, clock, cache, spawned, hist>>

\* on_blocked returns or panics
ObserverEnd(i, ending) ==
  /\ i \in 1..Len(inflight)
  /\ inflight[i].state = "running"
  /\ inflight' = [inflight EXCEPT ![i].state = ending]
  /\ cache' = on_blocked(cache, inflight[i].key, ending)
  /\ last' = Last("observer", inflight[i].key, clock, 0,
                  Opt(cache, inflight[i].key), NoRet, ending, FALSE)
  /\ UNCHANGED <<config, screener, horizon, clock, spawned, hist>>

TickObs ==
  /\ clock < horizon
  /\ clock' = clock + 1
  /\ last' = NoLast("tick")
  /\ UNCHANGED <<config, screener, horizon, inflight, cache, spawned, hist>>

NextObs ==
  \/ TickObs
  \/ \E k \in Keys : CheckObs(k)
  \/ \E i \in 1..Cardinality(Keys) : ObserverRun(i)
  \/ \E i \in 1..Cardinality(Keys) : ObserverEnd(i, "completed")
  \/ \E i \in 1..Cardinality(Keys) : ObserverEnd(i, "failed")

SpecObs == InitObs /\ [][NextObs]_vars

\* ------------------------------------------------------------------------
\* SpecLin: a store is prepared by calls made one after the other; then
\* each of two tasks makes one call on the key of the client, and their
\* accesses to the map interleave, for LinMaxTime ticks in all.
\* inflight[t] is the call of task t: the operation, the clock at its
\* invocation, the `now` it read, the access it is about to make, what it
\* returned, the clock at its return and the calls that had returned when
\* it was invoked.  hist.start is the store the two calls started from.
\* ------------------------------------------------------------------------
LinMaxTime == 3

LinOps == {"check", "refund", "penalize", "block_immediately"}

LinAmount == OneToken \div 2

\* One call, made alone: the store it leaves and what it returns.
Apply(c, op, k, now, created, cfg) ==
  CASE op = "check" ->
         LET r == check_rate_limit(c, k, now, created, cfg)
         IN  [cache |-> r.cache, ret |-> r.ret]
    [] op = "refund" ->
         [cache |-> refund_tokens(c, k, LinAmount, cfg), ret |-> NoRet]
    [] op = "penalize" ->
         [cache |-> consume_additional_tokens(c, k, LinAmount), ret |-> NoRet]
    [] op = "block_immediately" ->
         [cache |-> block_immediately(c, k, now, created, cfg), ret |-> NoRet]

LinCall(op, inv, now, pc, ret, end, before) ==
  [op |-> op, inv |-> inv, now |-> now, pc |-> pc, ret |-> ret, end |-> end,
   before |-> before]

NoCall == LinCall("", 0, 0, "idle", NoRet, 0, {})

\* consume_additional_tokens has no floor; the model stops at MaxDebt
WithinDebt(c, k) ==
  k \in DOMAIN c => c[k].tokens - LinAmount >= 0 - MaxDebt * OneToken

InitLin ==
  /\ config = ConcConfig
  /\ screener = <<>>
  /\ horizon = LinMaxTime
  /\ inflight = [t \in Tasks |-> NoCall]
  /\ clock = 0
  /\ cache = [k \in {} |-> NewEntry(0, 0)]
  /\ spawned = [k \in Keys |-> 0]
  /\ last = NoLast("new")
  /\ hist = [start |-> [k \in {} |-> NewEntry(0, 0)]]

TickLin ==
  /\ clock < horizon
  /\ clock' = clock + 1
  /\ last' = NoLast("tick")
  /\ UNCHANGED <<config, screener, horizon, inflight, cache, spawned, hist>>

\* a call made while no other is in progress
Prepare(op) ==
  \E created \in CreatedAt("k1") :
  LET r == Apply(cache, op, "k1", clock, created, config)
  IN  /\ \A t \in Tasks : inflight[t].pc = "idle"
      /\ op = "penalize" => WithinDebt(cache, "k1")
      /\ cache' = r.cache
      /\ clock' = created
      /\ hist' = [start |-> r.cache]
      /\ last' = Last(op, "k1", clock, 0, Opt(cache, "k1"), r.ret, "", FALSE)
      /\ UNCHANGED <<config, screener, horizon, inflight, spawned>>

\* the call begins; `let now = Utc::now();` (lines 40, 168)
Invoke(t, op) ==
  /\ inflight[t].pc = "idle"
  /\ inflight' = [inflight EXCEPT ![t] =
                    LinCall(op, clock, clock,
                            IF op = "check" THEN "get"
                            ELSE IF op = "block_immediately" THEN "entry"
                            ELSE "get_mut",
                            NoRet, 0,
                            {u \in Tasks : inflight[u].pc = "returned"})]
  /\ last' = NoLast("invoke")
  /\ UNCHANGED <<config, screener, horizon, clock, cache, spawned, hist>>

\* lines 42-48: the fast path, under the read guard of get(key)
LinGet(t) ==
  LET c == inflight[t]
  IN  /\ c.op = "check" /\ c.pc = "get"
      /\ inflight' = IF AlreadyBlocked(cache, "k1", c.now)
                     THEN [inflight EXCEPT ![t].pc = "return",
                                           ![t].ret = Ret(FALSE, FALSE, 0)]
                     ELSE [inflight EXCEPT ![t].pc = "entry"]
      /\ last' = NoLast("get")
      /\ UNCHANGED <<config, screener, horizon, clock, cache, spawned, hist>>

\* lines 51-100 of check_rate_limit, lines 170-179 of block_immediately:
\* under the write guard of entry(key)
LinEntry(t) ==
  LET c == inflight[t]
      r == IF c.op = "check"
           THEN check_entry(cache, "k1", c.now, clock, config)
           ELSE [cache |-> block_immediately(cache, "k1", c.now, clock, config),
                 ret |-> NoRet]
  IN  /\ c.pc = "entry"
      /\ cache' = r.cache
      /\ inflight' = [inflight EXCEPT ![t].pc = "return", ![t].ret = r.ret]
      /\ last' = NoLast("entry")
      /\ UNCHANGED <<config, screener, horizon, clock, spawned, hist>>

\* lines 135-145, 149-158: under the write guard of get_mut(key)
LinGetMut(t) ==
  LET c == inflight[t]
  IN  /\ c.pc = "get_mut"
      /\ c.op = "penalize" => WithinDebt(cache, "k1")
      /\ cache' = Apply(cache, c.op, "k1", c.now, clock, config).cache
      /\ inflight' = [inflight EXCEPT ![t].pc = "return"]
      /\ last' = NoLast("get_mut")
      /\ UNCHANGED <<config, screener, horizon, clock, spawned, hist>>

\* the call returns to its caller
Return(t) ==
  /\ inflight[t].pc = "return"
  /\ inflight' = [inflight EXCEPT ![t].pc = "returned", ![t].end = clock]
  /\ last' = NoLast("return")
  /\ UNCHANGED <<config, screener, horizon, clock, cache, spawned, hist>>

NextLin ==
  \/ TickLin
  \/ \E op \in LinOps : Prepare(op)
  \/ \E t \in Tasks : \E op \in LinOps : Invoke(t, op)
  \/ \E t \in Tasks : LinGet(t)
  \/ \E t \in Tasks : LinEntry(t)
  \/ \E t \in Tasks : LinGetMut(t)
  \/ \E t \in Tasks : Return(t)

SpecLin == InitLin /\ [][NextLin]_vars

\* ------------------------------------------------------------------------
\* SpecConfig: a RateLimitConfig is made by RateLimitConfig::new and changed
\* by its setters (src/src/config.rs).  The two f64 fields hold f64 values:
\* a finite number (in 1/60), an infinity or NaN.  config is the
\* configuration; last is the setter called last, its argument and the
\* configuration it was called on.
\* ------------------------------------------------------------------------
Finite(v) == [class |-> "finite", v |-> v]

NaN == [class |-> "nan", v |-> 0]

Infinity == [class |-> "inf", v |-> 0]

NegInfinity == [class |-> "-inf", v |-> 0]

\* the operator < of f64: false when either side is NaN
f64_lt(x, y) ==
  CASE x.class = "nan" \/ y.class = "nan" -> FALSE
    [] x.class # "nan" /\ y.class # "nan" /\ (x.class = "inf" \/ y.class = "-inf") -> FALSE
    [] x.class = "-inf" /\ y.class \in {"finite", "inf"} -> TRUE
    [] x.class = "finite" /\ y.class = "inf" -> TRUE
    [] x.class = "finite" /\ y.class = "finite" -> x.v < y.v

\* f64::max, f64::min: a NaN operand is ignored
f64_max(x, y) ==
  IF x.class = "nan" THEN y
  ELSE IF y.class = "nan" THEN x
  ELSE IF f64_lt(x, y) THEN y ELSE x

f64_min(x, y) ==
  IF x.class = "nan" THEN y
  ELSE IF y.class = "nan" THEN x
  ELSE IF f64_lt(y, x) THEN y ELSE x

\* f64::clamp: `if self < min { min } else if self > max { max } else { self }`
f64_clamp(x, lo, hi) ==
  IF f64_lt(x, lo) THEN lo
  ELSE IF f64_lt(hi, x) THEN hi
  ELSE x

\* the number literals 0.0 and 1.0
Zero == Finite(0)

One == Finite(OneToken)

\* lines 29-39, 42-48: RateLimitConfig::new
RateLimitConfig_new(rate_limit_per_minute, block_duration) ==
  [rate_limit_per_minute |-> rate_limit_per_minute,
   block_duration |-> block_duration,
   grace_period_seconds |-> 1,
   cache_refund_ratio |-> Finite(DefaultCacheRefundRatio),
   error_penalty_tokens |-> Finite(DefaultErrorPenaltyTokens)]

\* lines 50-53
with_grace_period(cfg, seconds) ==
  [cfg EXCEPT !.grace_period_seconds = seconds]

\* lines 55-58
with_cache_refund_ratio(cfg, ratio) ==
  [cfg EXCEPT !.cache_refund_ratio = f64_clamp(ratio, Zero, One)]

\* lines 60-63
with_error_penalty(cfg, penalty) ==
  [cfg EXCEPT !.error_penalty_tokens = f64_max(penalty, Zero)]

\* The f64 values the setters are called with.
F64Inputs ==
  {Finite(v) : v \in {0 - OneToken, 0 - 1, 0, 1, OneToken \div 2, OneToken,
                      OneToken + 1, 3 * OneToken}}
    \cup {NaN, Infinity, NegInfinity}

Setter(op, arg, pre) == [op |-> op, arg |-> arg, pre |-> pre]

InitConfig ==
  /\ config \in {RateLimitConfig_new(r, d) : r \in Rates, d \in BlockDurations}
  /\ screener = <<>>
  /\ horizon = 0
  /\ inflight = <<>>
  /\ clock = 0
  /\ cache = [k \in {} |-> NewEntry(0, 0)]
  /\ spawned = [k \in Keys |-> 0]
  /\ last = Setter("new", Zero, config)
  /\ hist = [k \in Keys |-> FreshHist]

WithGracePeriod(seconds) ==
  /\ config' = with_grace_period(config, seconds)
  /\ last' = Setter("with_grace_period", Finite(seconds), config)
  /\ UNCHANGED <<screener, horizon, inflight, clock, cache, spawned, hist>>

WithCacheRefundRatio(ratio) ==
  /\ config' = with_cache_refund_ratio(config, ratio)
  /\ last' = Setter("with_cache_refund_ratio", ratio, config)
  /\ UNCHANGED <<screener, horizon, inflight, clock, cache, spawned, hist>>

WithErrorPenalty(penalty) ==
  /\ config' = with_error_penalty(config, penalty)
  /\ last' = Setter("with_error_penalty", penalty, config)
  /\ UNCHANGED <<screener, horizon, inflight, clock, cache, spawned, hist>>

NextConfig ==
  \/ \E seconds \in GracePeriods : WithGracePeriod(seconds)
  \/ \E ratio \in F64Inputs : WithCacheRefundRatio(ratio)
  \/ \E penalty \in F64Inputs : WithErrorPenalty(penalty)

SpecConfig == InitConfig /\ [][NextConfig]_vars

\* ------------------------------------------------------------------------
\* SpecRate: the f64 arithmetic of the refill, bit for bit.  A positive f64
\* is its significand, MantissaBits binary digits of which the first is 1,
\* and the exponent of its last digit; 0.0 has no digits.  Every operation
\* rounds its exact result to the nearest such number, ties to the even
\* one.  A configuration of rate 1..MaxRate is taken, and the bucket of an
\* entry that holds 0.0 tokens is refilled after a number of whole seconds.
\* last is the refill made last: the seconds, max_tokens(),
\* refill_rate_per_second() and the tokens after line 66.
\* ------------------------------------------------------------------------
MaxRate == 128

\* the significand of an f64 has 53 binary digits
MantissaBits == 53

\* the digits multiplied at a time
LimbBits == (MantissaBits + 1) \div 3

B64Zero == [m |-> <<>>, e |-> 0]

Zeros(n) == [i \in 1..n |-> 0]

\* the binary digits of a natural number below 2^30, the first one first
Bits(n) ==
  LET len == CHOOSE k \in 0..30 : n < 2^k /\ (k = 0 \/ 2^(k - 1) <= n)
  IN  [i \in 1..len |-> (n \div 2^(len - i)) % 2]

\* the number of which b are the binary digits, for at most LimbBits digits
RECURSIVE Value(_)
Value(b) ==
  IF b = <<>> THEN 0 ELSE 2 * Value(SubSeq(b, 1, Len(b) - 1)) + b[Len(b)]

\* b without the zeros it starts with
Strip(b) ==
  IF \A i \in 1..Len(b) : b[i] = 0 THEN <<>>
  ELSE SubSeq(b, CHOOSE i \in 1..Len(b) :
                   b[i] = 1 /\ \A j \in 1..(i - 1) : b[j] = 0, Len(b))

\* b + 1, for digits b that are not all 1
Inc(b) ==
  LET j == CHOOSE i \in 1..Len(b) : b[i] = 0 /\ \A l \in (i + 1)..Len(b) : b[l] = 1
  IN  [i \in 1..Len(b) |-> IF i < j THEN b[i] ELSE IF i = j THEN 1 ELSE 0]

\* The f64 nearest to the number with digits b, last digit of exponent e,
\* followed by a non-zero fraction of a digit when sticky; ties to even.
b64_round(b, e, sticky) ==
  LET s == Strip(b)
      n == Len(s)
  IN  IF n = 0 THEN B64Zero
      ELSE IF n <= MantissaBits
      THEN [m |-> s \o Zeros(MantissaBits - n), e |-> e - (MantissaBits - n)]
      ELSE LET m == SubSeq(s, 1, MantissaBits)
               rest == sticky \/ \E i \in (MantissaBits + 2)..n : s[i] = 1
               up == s[MantissaBits + 1] = 1 /\ (rest \/ m[MantissaBits] = 1)
               e1 == e + (n - MantissaBits)
           IN  IF ~up THEN [m |-> m, e |-> e1]
               ELSE IF \A i \in 1..MantissaBits : m[i] = 1
               THEN [m |-> <<1>> \o Zeros(MantissaBits - 1), e |-> e1 + 1]
               ELSE [m |-> Inc(m), e |-> e1]

\* `n as f64`, exact for a u32
b64_from_int(n) == b64_round(Bits(n), 0, FALSE)

\* 2^j modulo d
RECURSIVE Pow2Mod(_, _)
Pow2Mod(j, d) ==
  IF j = 0 THEN 1 % d
  ELSE IF j % 2 = 0 THEN (Pow2Mod(j \div 2, d) * Pow2Mod(j \div 2, d)) % d
  ELSE (2 * Pow2Mod(j - 1, d)) % d

\* n as f64 / d as f64, for naturals n and d > 0, by long division: the
\* digits of the whole part, then digit j after the point, which is 1 when
\* twice the remainder of n * 2^(j-1) by d reaches d
b64_div(n, d) ==
  LET guard == MantissaBits + 8
      rem(j) == ((n % d) * Pow2Mod(j, d)) % d
      frac == [j \in 1..guard |-> IF 2 * rem(j - 1) >= d THEN 1 ELSE 0]
  IN  b64_round(Bits(n \div d) \o frac, 0 - guard, rem(guard) # 0)

\* the digits of b times n, for a significand b and n < 2^12, in three
\* limbs of LimbBits digits
MulBits(b, n) ==
  LET w == LimbBits
      lo == Value(SubSeq(b, Len(b) - w + 1, Len(b))) * n
      mid == Value(SubSeq(b, Len(b) - 2 * w + 1, Len(b) - w)) * n + lo \div 2^w
      hi == Value(SubSeq(b, 1, Len(b) - 2 * w)) * n + mid \div 2^w
      limb(v) == [i \in 1..w |-> (v \div 2^(w - i)) % 2]
  IN  Bits(hi) \o limb(mid % 2^w) \o limb(lo % 2^w)

\* n as f64 * x, for a natural n
b64_mul(n, x) ==
  IF n = 0 \/ x.m = <<>> THEN B64Zero
  ELSE b64_round(MulBits(x.m, n), x.e, FALSE)

\* x < y
b64_lt(x, y) ==
  IF y.m = <<>> THEN FALSE
  ELSE IF x.m = <<>> THEN TRUE
  ELSE IF x.e # y.e THEN x.e < y.e
  ELSE \E i \in 1..MantissaBits :
         /\ x.m[i] < y.m[i]
         /\ \A j \in 1..(i - 1) : x.m[j] = y.m[j]

\* f64::min
b64_min(x, y) == IF b64_lt(y, x) THEN y ELSE x

\* config.rs lines 65-67
max_tokens_f64(cfg) == b64_from_int(cfg.rate_limit_per_minute)

\* config.rs lines 69-71
refill_rate_per_second_f64(cfg) ==
  b64_div(cfg.rate_limit_per_minute, SecondsPerMinute)

\* limiter.rs lines 60-66, on an entry of 0.0 tokens (0.0 + x is x)
refill_f64(elapsed, cfg) ==
  b64_min(b64_mul(elapsed, refill_rate_per_second_f64(cfg)), max_tokens_f64(cfg))

IdleSeconds == {0, 1, SecondsPerMinute \div 2, SecondsPerMinute}

RateConfig(r) ==
  [rate_limit_per_minute |-> r, block_duration |-> 1, grace_period_seconds |-> 0,
   cache_refund_ratio |-> DefaultCacheRefundRatio,
   error_penalty_tokens |-> DefaultErrorPenaltyTokens]

F64Refill(elapsed, cfg) ==
  [op |-> "refill", elapsed |-> elapsed,
   max_tokens |-> max_tokens_f64(cfg),
   refill_rate |-> refill_rate_per_second_f64(cfg),
   tokens |-> refill_f64(elapsed, cfg)]

InitRate ==
  /\ config \in {RateConfig(r) : r \in 1..MaxRate}
  /\ screener = <<>>
  /\ horizon = 0
  /\ inflight = <<>>
  /\ clock = 0
  /\ cache = [k \in {} |-> NewEntry(0, 0)]
  /\ spawned = [k \in Keys |-> 0]
  /\ last = F64Refill(0, config)
  /\ hist = [k \in Keys |-> FreshHist]

\* the refill of a check made `elapsed` whole seconds after the bucket was
\* emptied
RefillAfter(elapsed) ==
  /\ last' = F64Refill(elapsed, config)
  /\ UNCHANGED <<config, screener, horizon, inflight, clock, cache, spawned, hist>>

NextRate == \E elapsed \in IdleSeconds : RefillAfter(elapsed)

SpecRate == InitRate /\ [][NextRate]_vars

\* ------------------------------------------------------------------------
\* SpecBurst: an entry past its grace period that holds up to MaxBurst
\* tokens and runs no block, and BurstTasks that each make one check of its
\* key, in parallel, within BurstTicks ticks.  The entry section of a check
\* is three steps: the guard of entry(key) is taken and the entry read, the
\* entry is written (and the observer spawned), the guard is dropped.  inflight[t] is the check of
\* task t: the access it is about to make, the `now` it read, the entry it
\* read under its guard and what it returned.  hist is the task that holds
\* the guard of the entry, the entry the checks started from and the clock
\* then.
\* ------------------------------------------------------------------------
MaxBurst == 2

BurstStart == 4

BurstTicks == 2

BurstTasks == {"t1", "t2", "t3"}

\* Mutant: the guard excludes nobody.
guard_free_always(holder) == TRUE

\* lines 42, 51-54: get(key) and entry(key) wait while another task holds
\* the write guard (RefMut) of the entry
guard_free(holder) == holder = <<>>

BurstConfig(grace) ==
  [rate_limit_per_minute |-> MaxBurst, block_duration |-> 1,
   grace_period_seconds |-> grace,
   cache_refund_ratio |-> DefaultCacheRefundRatio,
   error_penalty_tokens |-> DefaultErrorPenaltyTokens]

\* The entries the checks start from: no refill is due (last_refill is less
\* than a second old), and blocked_until is None or has passed.
BurstEntries ==
  [tokens : {0, OneToken \div 2} \cup {n * OneToken : n \in 1..MaxBurst},
   last_refill : {BurstStart - 1, BurstStart},
   created_at : {0},
   blocked_until : {<<>>, <<BurstStart - 1>>}]

BurstCall(pc, now, loaded, ret, notified) ==
  [pc |-> pc, now |-> now, loaded |-> loaded, ret |-> ret, spawn |-> notified]

InitBurst ==
  /\ config \in {BurstConfig(grace) : grace \in GracePeriods}
  /\ screener = <<>>
  /\ horizon = BurstStart + BurstTicks
  /\ inflight = [t \in BurstTasks |-> BurstCall("idle", 0, <<>>, NoRet, FALSE)]
  /\ clock = BurstStart
  /\ \E e \in BurstEntries :
       /\ cache = [k \in {"k1"} |-> e]
       /\ hist = [holder |-> <<>>, entry |-> e, clock |-> BurstStart]
  /\ spawned = [k \in Keys |-> 0]
  /\ last = NoLast("new")

TickBurst ==
  /\ clock < horizon
  /\ clock' = clock + 1
  /\ last' = NoLast("tick")
  /\ UNCHANGED <<config, screener, horizon, inflight, cache, spawned, hist>>

\* line 40: `let now = Utc::now();`
BurstBegin(t) ==
  /\ inflight[t].pc = "idle"
  /\ inflight' = [inflight EXCEPT ![t].pc = "get", ![t].now = clock]
  /\ last' = NoLast("begin")
  /\ UNCHANGED <<config, screener, horizon, clock, cache, spawned, hist>>

\* lines 42-48: the fast path, under the read guard of get(key)
BurstGet(t) ==
  LET c == inflight[t]
  IN  /\ c.pc = "get"
      /\ guard_free(hist.holder)
      /\ inflight' = IF AlreadyBlocked(cache, "k1", c.now)
                     THEN [inflight EXCEPT ![t].pc = "done",
                                           ![t].ret = Ret(FALSE, FALSE, 0)]
                     ELSE [inflight EXCEPT ![t].pc = "entry"]
      /\ last' = NoLast("get")
      /\ UNCHANGED <<config, screener, horizon, clock, cache, spawned, hist>>

\* lines 51-54: the write guard of entry(key) is taken and the entry read
BurstAcquire(t) ==
  /\ inflight[t].pc = "entry"
  /\ guard_free(hist.holder)
  /\ inflight' = [inflight EXCEPT ![t].pc = "held", ![t].loaded = <<cache["k1"]>>]
  /\ hist' = [hist EXCEPT !.holder = <<t>>]
  /\ last' = NoLast("entry")
  /\ UNCHANGED <<config, screener, horizon, clock, cache, spawned>>

\* lines 56-99: the entry is written through the guard and, on a new block,
\* the observer task is spawned; the guard (the local `entry`) is still
\* alive
BurstWrite(t) ==
  LET c == inflight[t]
      r == check_entry(Put(cache, "k1", c.loaded[1]), "k1", c.now, clock, config)
  IN  /\ c.pc = "held"
      /\ cache' = r.cache
      /\ spawned' = IF r.spawn THEN [spawned EXCEPT !["k1"] = @ + 1] ELSE spawned
      /\ inflight' = [inflight EXCEPT ![t].pc = "return", ![t].ret = r.ret,
                                      ![t].spawn = r.spawn]
      /\ last' = Last("check", "k1", c.now, 0, c.loaded, r.ret, r.path, r.spawn)
      /\ UNCHANGED <<config, screener, horizon, clock, hist>>

\* lines 100-101: the call returns and its locals are dropped, the guard
\* among them
BurstRelease(t) ==
  /\ inflight[t].pc = "return"
  /\ inflight' = [inflight EXCEPT ![t].pc = "done"]
  /\ hist' = [hist EXCEPT !.holder = <<>>]
  /\ last' = NoLast("return")
  /\ UNCHANGED <<config, screener, horizon, clock, cache, spawned>>

NextBurst ==
  \/ TickBurst
  \/ \E t \in BurstTasks : BurstBegin(t)
  \/ \E t \in BurstTasks : BurstGet(t)
  \/ \E t \in BurstTasks : BurstAcquire(t)
  \/ \E t \in BurstTasks : BurstWrite(t)
  \/ \E t \in BurstTasks : BurstRelease(t)

SpecBurst == InitBurst /\ [][NextBurst]_vars

\* ------------------------------------------------------------------------
\* SpecGate: requests of one client passing through rate_limit_middleware
\* in parallel, for GateMaxTime ticks.  Axum runs the middleware of every
\* request in a task of its own, so between two calls one request makes on
\* the limiter (check_rate_limit at line 53, block_immediately at line 97)
\* the other request may make its own.  Each call on the limiter is one
\* step here; inflight[r] is the request in slot r and the call it is about
\* to make.  hist is not kept.
\* ------------------------------------------------------------------------
GateMaxTime == 3

GateRequest(stage, path, user_agent) ==
  [stage |-> stage, path |-> path, user_agent |-> user_agent]

NoGateRequest == GateRequest("idle", <<>>, <<>>)

InitGate ==
  /\ config = MwConfig
  /\ screener = <<RequestScreener_new(MwScreeningConfig).value>>
  /\ horizon = GateMaxTime
  /\ inflight = [r \in Requests |-> NoGateRequest]
  /\ clock = 0
  /\ cache = [k \in {} |-> NewEntry(0, 0)]
  /\ spawned = [k \in Keys |-> 0]
  /\ last = NoLast("new")
  /\ hist = [k \in Keys |-> FreshHist]

\* lines 53-84: the request is checked, and answered if it is denied
GateCheck(r, path, user_agent) ==
  LET c == check_rate_limit(cache, "k1", clock, clock, config)
  IN  /\ inflight[r].stage = "idle"
      /\ cache' = c.cache
      /\ spawned' = IF c.spawn THEN [spawned EXCEPT !["k1"] = @ + 1] ELSE spawned
      /\ inflight' = [inflight EXCEPT ![r] =
                        IF c.ret.allowed THEN GateRequest("screen", path, user_agent)
                        ELSE NoGateRequest]
      /\ last' = Last("check", "k1", clock, 0, Opt(cache, "k1"), c.ret, c.path, c.spawn)
      /\ UNCHANGED <<config, screener, horizon, clock, hist>>

\* lines 87-96, 110: the screener looks at the request that was allowed,
\* which is forwarded unless it is flagged
GateScreen(r) ==
  LET req == inflight[r]
      flag == screen(screener, req.path, req.user_agent)
  IN  /\ req.stage = "screen"
      /\ inflight' = [inflight EXCEPT ![r] =
                        IF flag # <<>> THEN [req EXCEPT !.stage = "block"]
                        ELSE NoGateRequest]
      /\ last' = NoLast(IF flag # <<>> THEN "screen" ELSE "forward")
      /\ UNCHANGED <<config, screener, horizon, clock, cache, spawned, hist>>

\* line 97: limiter.block_immediately(&rate_limit_key), then 418
GateBlock(r) ==
  /\ inflight[r].stage = "block"
  /\ cache' = screening_block(cache, "k1", clock, config)
  /\ inflight' = [inflight EXCEPT ![r] = NoGateRequest]
  /\ last' = Last("block_immediately", "k1", clock, 0, Opt(cache, "k1"),
                  NoRet, "", FALSE)
  /\ UNCHANGED <<config, screener, horizon, clock, spawned, hist>>

NextGate ==
  \/ Tick
  \/ \E r \in Requests : \E path \in Paths : \E user_agent \in UserAgents :
       GateCheck(r, path, user_agent)
  \/ \E r \in Requests : GateScreen(r)
  \/ \E r \in Requests : GateBlock(r)

SpecGate == InitGate /\ [][NextGate]_vars

\* ------------------------------------------------------------------------
\* SpecPace: one client that never exceeds the configured rate, for
\* PaceSeconds seconds.  Its checks are at least 60 / rate_limit_per_minute
\* seconds apart and at most PaceSlack ticks later than that; nothing else
\* is called.  hist.checked is the time of the last check, if any.
\* ------------------------------------------------------------------------
PaceSeconds == 61

PaceSlack == 1

PaceConfig ==
  [rate_limit_per_minute |-> 120, block_duration |-> 1, grace_period_seconds |-> 0,
   cache_refund_ratio |-> DefaultCacheRefundRatio,
   error_penalty_tokens |-> DefaultErrorPenaltyTokens]

\* The client is at or below the rate if it checks now: 60 / rate seconds
\* have passed since its last check.
Paced(checked, now, cfg) ==
  IF checked = <<>> THEN TRUE
  ELSE (now - checked[1]) * cfg.rate_limit_per_minute
         >= SecondsPerMinute * TicksPerSec

InitPace ==
  /\ config = PaceConfig
  /\ screener = <<>>
  /\ horizon = PaceSeconds * TicksPerSec
  /\ inflight = <<>>
  /\ clock = 0
  /\ cache = [k \in {} |-> NewEntry(0, 0)]
  /\ spawned = [k \in Keys |-> 0]
  /\ last = NoLast("new")
  /\ hist = [checked |-> <<>>]

\* time passes, the client not waiting longer than it has to by more than
\* PaceSlack ticks
PaceTick ==
  /\ hist.checked # <<>>
  /\ ~Paced(hist.checked, clock - PaceSlack, config)
  /\ Tick

PaceCheck ==
  LET r == check_rate_limit(cache, "k1", clock, clock, config)
  IN  /\ Paced(hist.checked, clock, config)
      /\ cache' = r.cache
      /\ spawned' = IF r.spawn THEN [spawned EXCEPT !["k1"] = @ + 1] ELSE spawned
      /\ hist' = [checked |-> <<clock>>]
      /\ last' = Last("check", "k1", clock, 0, Opt(cache, "k1"), r.ret, r.path, r.spawn)
      /\ UNCHANGED <<fixed, clock>>

NextPace ==
  \/ PaceTick
  \/ PaceCheck

SpecPace == InitPace /\ [][NextPace]_vars

\* ------------------------------------------------------------------------
\* SpecLive: one client whose checks keep arriving while time advances,
\* without end; nothing else is called.  The times of the entry are kept
\* relative to the clock, which stays at LiveNow: a tick moves last_refill,
\* created_at and blocked_until one tick into the past.  A time is not
\* moved further back than the code can tell: a last_refill a minute old
\* refills the bucket to max_tokens whatever the rate, a created_at
\* grace_period_seconds old is out of the grace period, a blocked_until
\* equal to now is expired.  FairLive adds what the scenario supposes: time
\* keeps advancing and checks keep arriving.
\* ------------------------------------------------------------------------
LiveNow == SecondsPerMinute * TicksPerSec

Elapse(e, now, cfg) ==
  [e EXCEPT !.last_refill = Max(0, @ - 1),
            !.created_at = Max(now - cfg.grace_period_seconds * TicksPerSec, @ - 1),
            !.blocked_until = IF @ = <<>> THEN <<>> ELSE <<Max(now, @[1] - 1)>>]

InitLive ==
  /\ config = ConcConfig
  /\ screener = <<>>
  /\ horizon = LiveNow
  /\ inflight = <<>>
  /\ clock = LiveNow
  /\ cache = [k \in {} |-> NewEntry(0, 0)]
  /\ spawned = [k \in Keys |-> 0]
  /\ last = NoLast("new")
  /\ hist = <<>>

\* Utc::now() advances
LiveTick ==
  /\ cache' = [k \in DOMAIN cache |-> Elapse(cache[k], clock, config)]
  /\ last' = NoLast("tick")
  /\ UNCHANGED <<fixed, clock, spawned, hist>>

LiveCheck ==
  LET r == check_rate_limit(cache, "k1", clock, clock, config)
  IN  /\ cache' = r.cache
      /\ spawned' = IF r.spawn THEN [spawned EXCEPT !["k1"] = 1] ELSE spawned
      /\ last' = Last("check", "k1", clock, 0, Opt(cache, "k1"), r.ret, r.path, r.spawn)
      /\ UNCHANGED <<fixed, clock, hist>>

NextLive ==
  \/ LiveTick
  \/ LiveCheck

SpecLive == InitLive /\ [][NextLive]_vars

FairLive == SpecLive /\ WF_vars(LiveTick) /\ WF_vars(LiveCheck)

\* ------------------------------------------------------------------------
\* SpecStats: get_cache_stats called again and again by one task while the
\* calls of one client and the sweeper go on, for StatsMaxTime ticks.  The
\* accessor reads the clock, then the length of the map, then iterates over
\* the map: three steps, between which the other calls (each of them one
\* step here) may run.  inflight is the call of the accessor: the `now` it
\* read, the total_size and the blocked_count it has computed so far.
\* ------------------------------------------------------------------------
StatsMaxTime == 3

\* line 184: self.rate_limit_cache.len()
total_size(c) == Cardinality(DOMAIN c)

\* lines 185-195: the entries with now < blocked_until, counted
blocked_count(c, now) ==
  Cardinality({k \in DOMAIN c : ActiveBlock(c[k], now)})

StatsCall(pc, now, total, blocked) ==
  [pc |-> pc, now |-> now, total |-> total, blocked |-> blocked]

InitStats ==
  /\ config = ConcConfig
  /\ screener = <<>>
  /\ horizon = StatsMaxTime
  /\ inflight = StatsCall("idle", 0, 0, 0)
  /\ clock = 0
  /\ cache = [k \in {} |-> NewEntry(0, 0)]
  /\ spawned = [k \in Keys |-> 0]
  /\ last = NoLast("new")
  /\ hist = [k \in Keys |-> FreshHist]

\* line 183: let now = Utc::now();
StatsBegin ==
  /\ inflight.pc \in {"idle", "done"}
  /\ inflight' = StatsCall("len", clock, 0, 0)
  /\ last' = NoLast("begin")
  /\ UNCHANGED <<config, screener, horizon, clock, cache, spawned, hist>>

\* line 184
StatsLen ==
  /\ inflight.pc = "len"
  /\ inflight' = [inflight EXCEPT !.pc = "iter", !.total = total_size(cache)]
  /\ last' = NoLast("len")
  /\ UNCHANGED <<config, screener, horizon, clock, cache, spawned, hist>>

\* lines 185-197: the iteration, and the return of (total_size, blocked_count)
StatsIter ==
  /\ inflight.pc = "iter"
  /\ inflight' = [inflight EXCEPT !.pc = "done",
                                  !.blocked = blocked_count(cache, inflight.now)]
  /\ last' = NoLast("stats")
  /\ UNCHANGED <<config, screener, horizon, clock, cache, spawned, hist>>

NextStats ==
  \/ Tick
  \/ \E k \in Clients : Check(k)
  \/ \E k \in Clients : BlockImmediately(k)
  \/ Cleanup
  \/ StatsBegin
  \/ StatsLen
  \/ StatsIter

SpecStats == InitStats /\ [][NextStats]_vars

\* ------------------------------------------------------------------------
\* Properties
\* ------------------------------------------------------------------------
\* The entry the call that has just completed acted on, after the call.
LastEntry == cache[last.key]

\* A check has just completed on a key whose entry has so far seen nothing
\* but checks, all of them less than one second after it was created.
BackToBack ==
  /\ last.op = "check"
  /\ config.grace_period_seconds = 0
  /\ hist[last.key].pure
  /\ ~hist[last.key].penalized
  /\ last.now - LastEntry.created_at < TicksPerSec

\* C1: for a fresh key with grace_period = 0 and max_tokens = N, checked back
\* to back within one second, checks 1..N return allowed and not newly
\* blocked, check N+1 returns (false, true, 0.0), and every later check
\* returns (false, false, 0.0) with the block still running.
C1_BackToBackChecks ==
  BackToBack =>
    LET h == hist[last.key]
        n == h.consumed + h.denied
        N == config.rate_limit_per_minute
    IN  /\ (h.denied < 2 /\ n <= N) =>
              (last.ret.allowed /\ ~last.ret.newly_blocked)
        /\ (h.denied < 2 /\ n = N + 1) => last.ret = Ret(FALSE, TRUE, 0)
        /\ (h.denied = 2 \/ n > N + 1) =>
              (last.ret = Ret(FALSE, FALSE, 0) /\ ActiveBlock(LastEntry, last.now))

C1_Witness ==
  /\ BackToBack
  /\ config.rate_limit_per_minute = 2
  /\ hist[last.key].consumed = 2
  /\ hist[last.key].denied = 2
  /\ last.ret = Ret(FALSE, FALSE, 0)

\* C2: a check on a key whose stored blocked_until is later than now returns
\* (false, false, 0.0), leaves the entry as it was and notifies nobody,
\* whatever the balance and whatever refunds or penalties came since.
C2_BlockedFastPath ==
  (/\ last.op = "check"
   /\ last.pre # <<>>
   /\ ActiveBlock(last.pre[1], last.now)) =>
     /\ last.ret = Ret(FALSE, FALSE, 0)
     /\ LastEntry = last.pre[1]
     /\ ~last.spawn

C2_Witness ==
  /\ last.op = "check"
  /\ last.pre # <<>>
  /\ ActiveBlock(last.pre[1], last.now)
  /\ last.pre[1].tokens >= OneToken
  /\ hist[last.key].penalized
  /\ last.ret = Ret(FALSE, FALSE, 0)

\* C3: every check of the bucket path that finds less than one token on a
\* key that is not under an active block sets blocked_until to
\* now + block_duration and returns (false, true, 0.0), also when an earlier
\* block of the key has expired; so every denied check leaves the key under
\* an active block.
C3_EveryDenialBlocks ==
  (last.op = "check" /\ ~last.ret.allowed) =>
     /\ ActiveBlock(LastEntry, last.now)
     /\ last.path = "bucket" =>
          /\ last.ret = Ret(FALSE, TRUE, 0)
          /\ LastEntry.blocked_until = <<last.now + block_duration_chrono(config)>>

\* The notifications dispatched for key k by the step that has just ended.
Dispatched(k) == spawned'[k] - spawned[k]

\* The step started a block on k: k is under an active block after it and
\* was not before it.
StartsBlock(k) ==
  /\ k \in DOMAIN cache'
  /\ ActiveBlock(cache'[k], clock')
  /\ ~(k \in DOMAIN cache /\ ActiveBlock(cache[k], clock))

\* C4 as stated: a step dispatches one notification for a key exactly when it
\* takes the key from not actively blocked to actively blocked, by a check or
\* by block_immediately, and none otherwise.
C4_NotifyOnEveryNewBlock ==
  [][\A k \in Keys : Dispatched(k) = IF StartsBlock(k) THEN 1 ELSE 0]_vars

\* C4 amended: a check that returns newly_blocked = true dispatches exactly
\* one notification for its key and starts a block on it; no other call, and
\* in particular not block_immediately, dispatches any.
C4_NotifyOnNewlyBlockedCheck ==
  [][\A k \in Keys :
       LET newly == /\ last'.op = "check"
                    /\ last'.key = k
                    /\ last'.ret.newly_blocked
       IN  /\ Dispatched(k) = IF newly THEN 1 ELSE 0
           /\ newly => StartsBlock(k)]_vars

\* block_immediately has started a block on a key whose first block, set by
\* an exhausting check, had expired: one notification in all.
C4_Witness ==
  /\ last.op = "block_immediately"
  /\ last.pre # <<>>
  /\ last.pre[1].blocked_until # <<>>
  /\ ~ActiveBlock(last.pre[1], last.now)
  /\ ActiveBlock(LastEntry, last.now)
  /\ spawned[last.key] = 1

\* C5: after N allowed post-grace checks on a fresh entry (N <= max_tokens)
\* with no refill, refund or penalty in between, the remaining_tokens
\* returned by the N-th check and the stored tokens both equal max_tokens - N.
C5_RemainingAfterN ==
  (/\ last.op = "check"
   /\ last.path = "bucket"
   /\ last.ret.allowed
   /\ hist[last.key].pure
   /\ ~hist[last.key].penalized) =>
     LET left == max_tokens(config) - hist[last.key].consumed * OneToken
     IN  /\ hist[last.key].consumed <= config.rate_limit_per_minute
         /\ last.ret.remaining = left
         /\ LastEntry.tokens = left

C5_Witness ==
  /\ last.op = "check"
  /\ last.path = "bucket"
  /\ last.ret.allowed
  /\ hist[last.key].pure
  /\ ~hist[last.key].penalized
  /\ config.grace_period_seconds = 1
  /\ hist[last.key].consumed = 2
  /\ last.ret.remaining = 0

\* C6: the stored tokens of every entry never exceed max_tokens, and
\* refund(key, a) on an existing entry stores min(max_tokens, tokens + a).
C6_NeverAboveMax ==
  /\ \A k \in DOMAIN cache : cache[k].tokens <= max_tokens(config)
  /\ (last.op = "refund" /\ last.pre # <<>>) =>
        LET sum == last.pre[1].tokens + last.amount
        IN  LastEntry.tokens =
              IF sum > max_tokens(config) THEN max_tokens(config) ELSE sum

C6_Witness ==
  /\ last.op = "refund"
  /\ last.pre # <<>>
  /\ last.pre[1].tokens = OneToken
  /\ last.pre[1].tokens + last.amount > max_tokens(config)
  /\ LastEntry.tokens = max_tokens(config)

\* C7 as stated: the stored tokens of every entry are >= 0 after every call.
C7_NeverNegative ==
  \A k \in DOMAIN cache : cache[k].tokens >= 0

\* C7 amended: the stored tokens of an entry that has never been penalized
\* are >= 0 after every call; only consume_additional_tokens takes a balance
\* below zero.
C7_NonNegativeUnlessPenalized ==
  \A k \in DOMAIN cache : ~hist[k].penalized => cache[k].tokens >= 0

\* A never-penalized entry holding half a token has just been denied.
C7_Witness ==
  /\ last.op = "check"
  /\ last.path = "bucket"
  /\ ~hist[last.key].penalized
  /\ ~last.ret.allowed
  /\ LastEntry.tokens > 0
  /\ LastEntry.tokens < OneToken

\* The balance a check of the bucket path finds after refilling the entry e.
Refilled(e) ==
  LET elapsed == num_seconds(last.now - e.last_refill)
      sum == e.tokens
               + (IF elapsed > 0 THEN elapsed ELSE 0) * refill_rate_per_second(config)
  IN  IF sum > max_tokens(config) THEN max_tokens(config) ELSE sum

\* C8: penalize(key, amount) on an existing entry stores tokens - amount with
\* no lower clamp; a later check adds elapsed * refill_rate to the balance,
\* negative or not, clamps it at max_tokens only, and allows the request
\* exactly when the result is at least 1.0.
C8_PenaltyUnclamped ==
  /\ (last.op = "penalize" /\ last.pre # <<>>) =>
        LastEntry.tokens = last.pre[1].tokens - last.amount
  /\ (last.op = "check" /\ last.path = "bucket" /\ last.pre # <<>>) =>
        LET bal == Refilled(last.pre[1])
        IN  /\ last.ret.allowed <=> bal >= OneToken
            /\ LastEntry.tokens = IF last.ret.allowed THEN bal - OneToken ELSE bal

\* A check one second or more after a penalty left the balance negative:
\* the refill is added to the negative balance and the check is denied.
C8_Witness ==
  /\ last.op = "check"
  /\ last.path = "bucket"
  /\ last.pre # <<>>
  /\ last.pre[1].tokens < 0
  /\ hist[last.key].penalized
  /\ LastEntry.tokens > last.pre[1].tokens
  /\ LastEntry.tokens < 0
  /\ ~last.ret.allowed

\* C9: with grace_period = 0, once the tokens consumed by checks plus the
\* tokens taken by penalties reach max_tokens with no refill or refund in
\* between, the next check is denied, and newly blocks a key never blocked.
C9_PenaltyComposition ==
  (/\ last.op = "check"
   /\ config.grace_period_seconds = 0
   /\ hist[last.key].pure) =>
     LET h == hist[last.key]
         before == (h.consumed - IF last.ret.allowed THEN 1 ELSE 0) * OneToken
                     + h.penalty
     IN  before >= max_tokens(config) =>
           /\ ~last.ret.allowed
           /\ h.denied = 1 => last.ret = Ret(FALSE, TRUE, 0)

\* One token consumed and two halves taken by penalties empty a bucket of
\* two; the next check is denied and newly blocks.
C9_Witness ==
  /\ last.op = "check"
  /\ config.grace_period_seconds = 0
  /\ config.rate_limit_per_minute = 2
  /\ hist[last.key].pure
  /\ hist[last.key].consumed = 1
  /\ hist[last.key].penalty = OneToken
  /\ hist[last.key].denied = 1
  /\ last.ret = Ret(FALSE, TRUE, 0)

\* A check has just completed on an entry younger than the grace period
\* that was never passed to block_immediately.
InGraceWindow ==
  /\ last.op = "check"
  /\ config.grace_period_seconds > 0
  /\ ~hist[last.key].blocked_imm
  /\ last.now - LastEntry.created_at < config.grace_period_seconds * TicksPerSec

\* C10: every check less than grace_period after the key was first seen
\* returns (true, false, max_tokens) and leaves tokens and last_refill as they
\* were, however many are made; an entry that has seen only such checks still
\* holds max_tokens.
C10_GraceIsFree ==
  InGraceWindow =>
    /\ last.ret = Ret(TRUE, FALSE, max_tokens(config))
    /\ last.pre # <<>> => LastEntry = last.pre[1]
    /\ last.pre = <<>> => LastEntry = NewEntry(max_tokens(config), clock)
    /\ (hist[last.key].pure /\ ~hist[last.key].penalized) =>
          LastEntry.tokens = max_tokens(config)

\* A check half a second after the key was first seen, on an entry that a
\* penalty has already taken below its full balance.
C10_Witness ==
  /\ InGraceWindow
  /\ last.pre # <<>>
  /\ last.now > LastEntry.created_at
  /\ hist[last.key].penalized
  /\ LastEntry.tokens < max_tokens(config)
  /\ last.ret = Ret(TRUE, FALSE, max_tokens(config))

\* A check has just completed exactly six seconds after the check that found
\* the bucket exhausted and blocked the key (that check recorded both
\* last_refill = t0 and blocked_until = t0 + block_duration), no bucket-path
\* check, block_immediately or sweep having touched the entry in between.
RecoveryCheck ==
  /\ config = RefillTestConfig
  /\ last.op = "check"
  /\ last.pre # <<>>
  /\ ~hist[last.key].blocked_imm
  /\ last.pre[1].blocked_until =
        <<last.pre[1].last_refill + block_duration_chrono(config)>>
  /\ last.now = last.pre[1].last_refill + 6 * TicksPerSec

\* C11: with rate 10 per minute, grace 0 and block_duration 5 s, a key that
\* exhausted its bucket and was blocked at t0 and then left idle is allowed
\* and not newly blocked by a single check at t0 + 6 s: the block has lapsed
\* and the six seconds since the last_refill recorded by the blocking check
\* credit one whole token, which the check consumes.
C11_RecoveredAfterSixSeconds ==
  RecoveryCheck =>
    /\ last.path = "bucket"
    /\ last.ret.allowed
    /\ ~last.ret.newly_blocked
    /\ LastEntry.tokens =
         last.pre[1].tokens + 6 * refill_rate_per_second(config) - OneToken
    /\ last.ret.remaining = LastEntry.tokens
    /\ LastEntry.last_refill = last.now

C11_Witness ==
  /\ RecoveryCheck
  /\ last.pre[1].tokens = 0
  /\ spawned[last.key] = 1
  /\ last.ret = Ret(TRUE, FALSE, 0)

\* The entry a check of the bucket path started from: the stored one, or the
\* one it created.
BucketStart ==
  IF last.pre # <<>> THEN last.pre[1]
  ELSE NewEntry(max_tokens(config), LastEntry.created_at)

\* The balance a check of the bucket path reached by refilling, before it
\* took its token.
BucketRefilled ==
  LastEntry.tokens + (IF last.ret.allowed THEN OneToken ELSE 0)

\* C12: every check past the grace period on a key that is not under an
\* active block brings the balance to
\* min(max_tokens, tokens + elapsed * refill_rate), where elapsed is the
\* exact time since last_refill, fractions of a second included, never
\* negative; and then sets last_refill to now.  (Both sides are multiplied
\* by TicksPerSec, elapsed being counted in ticks.)
C12_RefillUsesExactElapsed ==
  (last.op = "check" /\ last.path = "bucket") =>
    LET e == BucketStart
        elapsed == Max(last.now - e.last_refill, 0)
    IN  /\ BucketRefilled * TicksPerSec =
             Min(max_tokens(config) * TicksPerSec,
                 e.tokens * TicksPerSec + elapsed * refill_rate_per_second(config))
        /\ LastEntry.last_refill = last.now

\* The step that has just ended is a call of a keyed operation on key a.
CallOn(a) ==
  /\ last'.op \in {"check", "refund", "penalize", "block_immediately"}
  /\ last'.key = a

\* C13: keys are independent.  A check, refund, penalty or block_immediately
\* on key a leaves the entry of every other key b as it was (present or
\* absent), dispatches nothing for b, and changes neither the result nor the
\* effect on b of a check made on b at any later time.
C13_KeysIndependent ==
  [][\A a \in Keys : CallOn(a) =>
       \A b \in Keys \ {a} :
         /\ Opt(cache', b) = Opt(cache, b)
         /\ spawned'[b] = spawned[b]
         /\ \A t \in clock'..horizon :
              LET before == check_rate_limit(cache, b, t, t, config)
                  after == check_rate_limit(cache', b, t, t, config)
              IN  /\ after.ret = before.ret
                  /\ after.spawn = before.spawn
                  /\ Opt(after.cache, b) = Opt(before.cache, b)]_vars

\* As in test_different_ips_independent_limits: the second client is allowed
\* while the first, exhausted by its own checks, is under a block.
C13_Witness ==
  /\ last.op = "check"
  /\ last.key = "k2"
  /\ last.ret.allowed
  /\ last.pre = <<>>
  /\ "k1" \in DOMAIN cache
  /\ ActiveBlock(cache["k1"], clock)
  /\ hist["k1"].denied >= 1

\* C16: the set of stored keys changes only as follows.  A check or a
\* block_immediately adds at most the key it was called with and removes
\* none; a refund or a penalty neither adds nor removes a key; only the
\* sweep removes keys, and it adds none.
C16_KeySetChanges ==
  [][/\ last'.op \in {"check", "block_immediately"} =>
          /\ DOMAIN cache \subseteq DOMAIN cache'
          /\ DOMAIN cache' \subseteq DOMAIN cache \cup {last'.key}
          /\ last'.key \in DOMAIN cache'
     /\ last'.op \in {"refund", "penalize"} => DOMAIN cache' = DOMAIN cache
     /\ last'.op = "cleanup" => DOMAIN cache' \subseteq DOMAIN cache
     /\ last'.op # "cleanup" => DOMAIN cache \subseteq DOMAIN cache']_vars

\* A refund has just found no entry for its key and created none, after
\* block_immediately created the entry of the other key.
C16_Witness ==
  /\ last.op = "refund"
  /\ last.key = "k1"
  /\ last.pre = <<>>
  /\ DOMAIN cache = {"k2"}
  /\ hist["k2"].blocked_imm

\* C14: a sweep at time now that runs alone leaves in the store exactly the
\* entries that are under an active block (blocked_until set and later than
\* now) or were refilled less than 2 * block_duration before now, each as
\* it was; every other entry is removed and none is added.
C14_SweepKeepsExactly ==
  [][last'.op = "cleanup" =>
       /\ DOMAIN cache' \subseteq DOMAIN cache
       /\ \A k \in DOMAIN cache :
            LET e == cache[k]
                blocked == e.blocked_until # <<>> /\ clock < e.blocked_until[1]
                recent == clock - e.last_refill
                            < 2 * config.block_duration * TicksPerSec
            IN  /\ k \in DOMAIN cache' <=> (blocked \/ recent)
                /\ k \in DOMAIN cache' => cache'[k] = e]_vars

\* A sweep has just removed an entry whose block had lapsed and that had
\* been idle for exactly twice the block duration.
C14_Witness ==
  /\ last.op = "cleanup"
  /\ last.pre # <<>>
  /\ last.pre[1].blocked_until # <<>>
  /\ last.now - last.pre[1].last_refill = 2 * block_duration_chrono(config)
  /\ last.key \notin DOMAIN cache

\* C17: block_immediately(key) at time now always ends with the key stored
\* with tokens = 0 and blocked_until = now + block_duration, whatever the
\* entry held before: the entry is created if absent, and an existing
\* blocked_until, lapsed or still running, is replaced; last_refill and
\* created_at of an existing entry are left alone.
C17_BlockImmediately ==
  last.op = "block_immediately" =>
    /\ last.key \in DOMAIN cache
    /\ LastEntry.tokens = 0
    /\ LastEntry.blocked_until = <<last.now + block_duration_chrono(config)>>
    /\ last.pre # <<>> =>
         /\ LastEntry.last_refill = last.pre[1].last_refill
         /\ LastEntry.created_at = last.pre[1].created_at

\* block_immediately has just replaced a block that was still running, on an
\* entry in debt.
C17_Witness ==
  /\ last.op = "block_immediately"
  /\ last.pre # <<>>
  /\ ActiveBlock(last.pre[1], last.now)
  /\ last.pre[1].blocked_until # LastEntry.blocked_until
  /\ last.pre[1].tokens < 0
  /\ LastEntry.tokens = 0

\* C15: a key under an active block is never evicted, however the sweep
\* interleaves with check, refund, penalty and block_immediately: once
\* blocked_until = u has been stored for a key, the entry stays in the store
\* with a block that runs to u at least, at every time before u.  As a step
\* property: a step taken while the stored block of a key is running leaves
\* the key stored, with blocked_until no earlier than it was.
C15_BlockRunsToItsEnd ==
  [][\A k \in DOMAIN cache :
       ActiveBlock(cache[k], clock) =>
         /\ k \in DOMAIN cache'
         /\ cache'[k].blocked_until # <<>>
         /\ cache'[k].blocked_until[1] >= cache[k].blocked_until[1]]_vars

\* The middleware has just answered a request that carried a client context
\* and that it had checked.
AnsweredChecked ==
  /\ last.op = "request"
  /\ last.stage = "done"
  /\ last.ctx
  /\ last.check # <<>>

\* C18: a request with a client context whose check denies is answered 429;
\* the screener is not run on it, block_immediately is not called, the
\* downstream handler is not invoked and neither refund nor penalty is
\* applied: the store is as the check left it.
C18_DeniedIsRejected ==
  [][(AnsweredChecked' /\ ~last'.check[1].allowed) =>
       /\ last'.response = 429
       /\ ~last'.screened
       /\ ~last'.blocked
       /\ ~last'.forwarded
       /\ last'.adjust = <<>>
       /\ inflight' = inflight
       /\ cache' = check_rate_limit(cache, last'.key, clock, clock', config).cache]_vars

\* A request the screener would flag has been denied by the check and
\* answered 429.
C18_Witness ==
  /\ AnsweredChecked
  /\ ~last.check[1].allowed
  /\ screen(screener, last.path, last.user_agent) # <<>>
  /\ last.response = 429

\* C19: a request whose check allows and that the screener flags (by its
\* path or by its user-agent) is answered 418 after block_immediately on its
\* key: the handler is not invoked, no refund or penalty is applied, and the
\* key is left with no tokens under a block of block_duration.  From then on
\* the block only moves later while it runs, and every request of a key
\* under a running block is rejected (429) and none is forwarded.
C19_FlaggedIsBlocked ==
  [][/\ (/\ AnsweredChecked'
         /\ last'.check[1].allowed
         /\ ~last'.forwarded
         /\ screen(screener, last'.path, last'.user_agent) # <<>>) =>
          /\ last'.response = 418
          /\ last'.blocked
          /\ last'.adjust = <<>>
          /\ inflight' = inflight
          /\ DOMAIN cache' = DOMAIN cache \cup {last'.key}
          /\ cache'[last'.key].tokens = 0
          /\ cache'[last'.key].blocked_until =
               <<clock' + block_duration_chrono(config)>>
     /\ \A k \in DOMAIN cache :
          ActiveBlock(cache[k], clock) =>
            /\ k \in DOMAIN cache'
            /\ cache'[k].blocked_until # <<>>
            /\ cache'[k].blocked_until[1] >= cache[k].blocked_until[1]
            /\ (AnsweredChecked' /\ ~last'.forwarded /\ last'.key = k) =>
                 last'.response = 429
            /\ \A r \in Requests :
                 (inflight'[r].stage = "downstream" /\ inflight'[r].key = k) =>
                   inflight'[r] = inflight[r]]_vars

\* A request has been rejected because of a block that no check set: the
\* key was blocked for a flagged request and has not been notified.
C19_Witness ==
  /\ AnsweredChecked
  /\ last.response = 429
  /\ last.check[1] = Ret(FALSE, FALSE, 0)
  /\ spawned[last.key] = 0
  /\ last.key \in DOMAIN cache
  /\ cache[last.key].tokens = 0
  /\ ActiveBlock(cache[last.key], clock)

\* C20: when the answer of the downstream handler to a forwarded request
\* comes back, the middleware applies exactly one of: a refund of
\* cache_refund_ratio tokens (status 304), a penalty of error_penalty_tokens
\* (any other 4xx or 5xx status), nothing (every other status); never two of
\* them, and it passes the status on.
C20_OneAdjustment ==
  [][\A r \in Requests :
       (inflight[r].stage = "downstream" /\ inflight'[r].stage = "idle") =>
         LET k == inflight[r].key
             status == last'.response
             error == status \in 400..599
         IN  /\ last'.op = "request" /\ last'.forwarded
             /\ status = 304 =>
                  cache' = refund_tokens(cache, k, config.cache_refund_ratio, config)
             /\ error =>
                  cache' = consume_additional_tokens(cache, k, config.error_penalty_tokens)
             /\ (status # 304 /\ ~error) => cache' = cache
             /\ last'.adjust =
                  IF status = 304
                  THEN <<[op |-> "refund", amount |-> config.cache_refund_ratio]>>
                  ELSE IF error
                  THEN <<[op |-> "penalize", amount |-> config.error_penalty_tokens]>>
                  ELSE <<>>]_vars

\* A 304 has just been refunded half a token on a bucket one check had
\* taken a token from.
C20_Witness ==
  /\ last.op = "request"
  /\ last.forwarded
  /\ last.response = 304
  /\ last.adjust # <<>>
  /\ last.key \in DOMAIN cache
  /\ cache[last.key].tokens =
       max_tokens(config) - OneToken + config.cache_refund_ratio

\* The middleware has just answered a request that carried no client
\* context.
AnsweredNoContext ==
  /\ last.op = "request"
  /\ last.stage = "done"
  /\ ~last.ctx

\* C21: a request that arrives without a client context is answered 500, an
\* answer of its own (not the 429 of a rate-limited request, not the 418 of a
\* screened one, and not the answer of a downstream handler, which is not
\* invoked); no check is made, and the store, the notifications and the
\* requests in flight are left as they were.
C21_NoContextIs500 ==
  [][AnsweredNoContext' =>
       /\ last'.response = 500
       /\ last'.response \notin {418, 429}
       /\ last'.check = <<>>
       /\ ~last'.screened
       /\ ~last'.blocked
       /\ ~last'.forwarded
       /\ last'.adjust = <<>>
       /\ cache' = cache
       /\ spawned' = spawned
       /\ inflight' = inflight]_vars

\* A request without context, on a path the screener flags, has been
\* answered 500 while the store holds no entry at all.
C21_Witness ==
  /\ AnsweredNoContext
  /\ last.response = 500
  /\ screen(screener, last.path, last.user_agent) # <<>>
  /\ cache = <<>>

\* The patterns of the ScreeningConfig, in list order, that match the
\* request screened last: the path patterns whose regex matches the path,
\* the user-agent patterns that occur in the user-agent, case put aside.
PathHits ==
  {i \in 1..Len(inflight.path_patterns) :
     is_match(inflight.path_patterns[i], last.path)}

AgentHits ==
  {i \in 1..Len(inflight.user_agent_patterns) :
     Contains(to_lowercase(last.user_agent),
              to_lowercase(inflight.user_agent_patterns[i]))}

\* C22: path patterns have precedence.  Whenever the path matches at least
\* one path pattern, check returns MaliciousPath(p), p being the first
\* matching path pattern in list order, whatever the user-agent is.
C22_PathPatternsFirst ==
  (last.op = "screen" /\ PathHits # {}) =>
    \E i \in PathHits :
      /\ \A j \in PathHits : i <= j
      /\ last.result =
           <<[reason |-> "MaliciousPath", pattern |-> inflight.path_patterns[i]]>>

\* The path is flagged for the second path pattern, the first one not
\* matching it, although the user-agent matches a user-agent pattern too.
C22_Witness ==
  /\ last.op = "screen"
  /\ PathHits = {2}
  /\ AgentHits # {}
  /\ last.result =
       <<[reason |-> "MaliciousPath", pattern |-> inflight.path_patterns[2]]>>

\* C23: when no path pattern matches, check returns MaliciousUserAgent(p) for
\* the first user-agent pattern, in list order, that occurs in the
\* user-agent when both are compared in lower case, p being that pattern as
\* the screener holds it (in lower case); and check returns no flag exactly
\* when no path pattern and no user-agent pattern matches.
C23_UserAgentSecond ==
  last.op = "screen" =>
    /\ (PathHits = {} /\ AgentHits # {}) =>
         \E i \in AgentHits :
           /\ \A j \in AgentHits : i <= j
           /\ last.result =
                <<[reason |-> "MaliciousUserAgent",
                   pattern |-> to_lowercase(inflight.user_agent_patterns[i])]>>
    /\ last.result = <<>> <=> (PathHits = {} /\ AgentHits = {})

\* A user-agent sent as "zG" is flagged for the pattern given as "Zg", the
\* first of two that match it, no path pattern matching the path.
C23_Witness ==
  /\ last.op = "screen"
  /\ inflight.path_patterns # <<>>
  /\ PathHits = {}
  /\ AgentHits = {1, 2}
  /\ inflight.user_agent_patterns[1] = <<"Z", "g">>
  /\ last.user_agent = <<"z", "G">>
  /\ last.result = <<[reason |-> "MaliciousUserAgent", pattern |-> <<"z", "g">>]>>

\* C24: construction is all or nothing.  If any path pattern of the list
\* does not compile, wherever it stands, RequestScreener::new returns an
\* error and there is no screener; if all compile it returns a screener that
\* holds every path pattern as given and every user-agent pattern in lower
\* case, in the given order.
C24_AllOrNothing ==
  ~Building =>
    LET pp == inflight.path_patterns
        up == inflight.user_agent_patterns
    IN  IF \E i \in 1..Len(pp) : ~Compiles(pp[i])
        THEN /\ screener = <<>>
             /\ last.op = "screener_new"
             /\ ~last.result.ok
        ELSE /\ screener # <<>>
             /\ last.op = "screener_new" => last.result = Ok(screener[1])
             /\ screener[1].path_patterns = pp
             /\ Len(screener[1].user_agent_patterns) = Len(up)
             /\ \A i \in 1..Len(up) :
                  screener[1].user_agent_patterns[i] = to_lowercase(up[i])

\* Construction has failed on a list whose last pattern is the only one
\* that does not compile.
C24_Witness ==
  /\ last.op = "screener_new"
  /\ ~last.result.ok
  /\ screener = <<>>
  /\ Len(inflight.path_patterns) = 2
  /\ Compiles(inflight.path_patterns[1])
  /\ ~Compiles(inflight.path_patterns[2])
  /\ last.result.error = inflight.path_patterns[2]

InOrder(first, second) ==
  LET a == inflight[first]
      b == inflight[second]
  IN  /\ second \notin a.before
      /\ \E na \in a.inv..a.end : \E ca \in na..a.end :
         \E nb \in b.inv..b.end : \E cb \in nb..b.end :
           LET r1 == Apply(hist.start, a.op, "k1", na, ca, config)
               r2 == Apply(r1.cache, b.op, "k1", nb, cb, config)
           IN  /\ r1.ret = a.ret
               /\ r2.ret = b.ret
               /\ r2.cache = cache

\* C26: calls on one key are linearizable.  When two calls that ran
\* concurrently on the key have both returned, what they returned and the
\* entry they left are those of the two calls made one after the other, in
\* an order that keeps a call that returned before the other was invoked
\* first, each taking effect at a moment between its invocation and its
\* return.
C26_Linearizable ==
  (\A t \in Tasks : inflight[t].pc = "returned") =>
    \/ InOrder("t1", "t2")
    \/ InOrder("t2", "t1")

\* C27: the setters clamp and never reject.  with_cache_refund_ratio(r)
\* stores min(1.0, max(0.0, r)) and with_error_penalty(p) stores
\* max(0.0, p), for every f64 value, and every other field of the
\* configuration is as it was.
C27_SettersClamp ==
  /\ last.op = "with_cache_refund_ratio" =>
       config = [last.pre EXCEPT
                   !.cache_refund_ratio = f64_min(One, f64_max(Zero, last.arg))]
  /\ last.op = "with_error_penalty" =>
       config = [last.pre EXCEPT
                   !.error_penalty_tokens = f64_max(Zero, last.arg)]

\* C28: for every rate r, max_tokens() is r, refill_rate_per_second() is the
\* f64 quotient of r by 60, and an empty bucket left idle for 60 seconds
\* holds exactly max_tokens() after the refill of its next check.
C28_FullAfterAMinute ==
  /\ last.max_tokens = b64_from_int(config.rate_limit_per_minute)
  /\ last.refill_rate = b64_div(config.rate_limit_per_minute, SecondsPerMinute)
  /\ last.elapsed = SecondsPerMinute => last.tokens = last.max_tokens

\* The checks of the burst that have been called, those that have returned,
\* and of these the allowed and the denied ones.
Called == {t \in BurstTasks : inflight[t].pc # "idle"}

Returned == {t \in BurstTasks : inflight[t].pc = "done"}

AllowedChecks == {t \in Returned : inflight[t].ret.allowed}

DeniedChecks == {t \in Returned : ~inflight[t].ret.allowed}

\* C29: no double spend under contention.  While no time has elapsed since
\* the entry held k whole tokens, the tokens taken by the checks that
\* returned allowed and the tokens stored add up to k; and once all n checks
\* that were called have returned, min(n, k) of them returned allowed and
\* k - min(n, k) tokens are stored.
C29_NoDoubleSpend ==
  LET k == hist.entry.tokens \div OneToken
      n == Cardinality(Called)
  IN  (hist.entry.tokens % OneToken = 0 /\ clock = hist.clock) =>
        /\ hist.holder = <<>> =>
             Cardinality(AllowedChecks) * OneToken + cache["k1"].tokens
               = hist.entry.tokens
        /\ Returned = Called =>
             /\ Cardinality(AllowedChecks) = Min(n, k)
             /\ cache["k1"].tokens = (k - Min(n, k)) * OneToken

\* Three checks have run at the same instant on an entry of two tokens:
\* two were allowed, one was denied, nothing is left.
C29_Witness ==
  /\ clock = hist.clock
  /\ hist.entry.tokens = 2 * OneToken
  /\ Returned = BurstTasks
  /\ Cardinality(AllowedChecks) = 2
  /\ cache["k1"].tokens = 0

\* C30: on an entry that was never blocked, exactly one of the checks that
\* are denied returns (false, true, 0.0) and spawns the observer, once; all
\* the other denied checks return (false, false, 0.0) and spawn nothing.
\* It is read while no check is inside its entry section.
C30_OneNewlyBlocked ==
  (hist.entry.blocked_until = <<>> /\ hist.holder = <<>>) =>
    /\ DeniedChecks = {} => spawned["k1"] = 0
    /\ DeniedChecks # {} =>
         /\ spawned["k1"] = 1
         /\ \E t \in DeniedChecks :
              /\ inflight[t].ret = Ret(FALSE, TRUE, 0)
              /\ inflight[t].spawn
              /\ \A u \in DeniedChecks \ {t} :
                   /\ inflight[u].ret = Ret(FALSE, FALSE, 0)
                   /\ ~inflight[u].spawn

\* Three checks have been denied on a never-blocked entry of half a token,
\* two of them past the fast path: one notification was dispatched.
C30_Witness ==
  /\ hist.entry.blocked_until = <<>>
  /\ hist.entry.tokens < OneToken
  /\ DeniedChecks = BurstTasks
  /\ Cardinality({t \in BurstTasks : inflight[t].loaded # <<>>}) >= 2
  /\ Cardinality({t \in BurstTasks : inflight[t].ret.newly_blocked}) = 1
  /\ spawned["k1"] = 1

\* C31: the notification is dispatched after the check has released the
\* lock of the entry.  At every step that hands a notification to
\* tokio::spawn, no task holds the guard of the entry.
C31_DispatchedUnlocked ==
  [][spawned'["k1"] > spawned["k1"] => (hist.holder = <<>> /\ hist'.holder = <<>>)]_vars

\* C32: in every interleaving, a check does not refill, consume from or
\* set last_refill of an entry whose blocked_until is in the future when
\* the check writes the entry: the check that has just run lines 61-72
\* did not find an actively blocked entry under its guard.
C32_NoWriteWhileBlocked ==
  (last.op = "check" /\ last.path = "bucket" /\ last.pre # <<>>) =>
    ~ActiveBlock(last.pre[1], clock)

\* C33: in every interleaving of the requests of a key, the middleware
\* calls block_immediately only while the key is not actively blocked: the
\* call that has just run found no entry or an entry whose block, if any,
\* had ended at the `now` the call read.
C33_BlocksOnlyUnblocked ==
  (last.op = "block_immediately" /\ last.pre # <<>>) =>
    ~ActiveBlock(last.pre[1], last.now)

\* C34: the blocked_until of a live entry is never unset and never moved
\* earlier: a step that leaves an entry in the store leaves a set
\* blocked_until set, at a time no earlier than before (the clock of the
\* model never decreases).
C34_BlockNeverShortened ==
  [][\A k \in DOMAIN cache \cap DOMAIN cache' :
       cache[k].blocked_until # <<>> =>
         /\ cache'[k].blocked_until # <<>>
         /\ cache'[k].blocked_until[1] >= cache[k].blocked_until[1]]_vars

\* C39: the duration given to RateLimitConfig::new is the period of the
\* rate: with new(10, 5 s) and grace 0 the bucket refills at 2 tokens per
\* second, and the check made one second after the block of the key has
\* expired finds 2 tokens refilled.
C39_DurationIsThePeriod ==
  RecoveryCheck =>
    /\ refill_rate_per_second(config) = 2 * OneToken
    /\ BucketRefilled - last.pre[1].tokens = 2 * OneToken

\* C35: a client that stays at or below the configured rate is never
\* denied: every check of a fresh key whose checks are at least
\* 60 / rate_limit_per_minute seconds apart, with no penalty and no
\* block_immediately, returns allowed.
C35_PacedClientNeverDenied ==
  last.op = "check" => last.ret.allowed

\* The block of the key has expired.
BlockExpired ==
  /\ "k1" \in DOMAIN cache
  /\ cache["k1"].blocked_until # <<>>
  /\ ~ActiveBlock(cache["k1"], clock)

\* C36: recovery is guaranteed.  Once the block of a key has expired, with
\* no penalty and no block_immediately, checks that keep arriving while
\* time advances lead to a check that returns allowed.
C36_RecoveryGuaranteed ==
  BlockExpired ~> (last.op = "check" /\ last.ret.allowed)

\* The results (allowed or not) of checks of key k made one after the other
\* at the given times, starting from store c.
RECURSIVE Decisions(_, _, _, _)
Decisions(c, k, times, cfg) ==
  IF times = <<>> THEN <<>>
  ELSE LET r == check_rate_limit(c, k, times[1], times[1], cfg)
       IN  <<r.ret.allowed>> \o Decisions(r.cache, k, Tail(times), cfg)

\* The times of one later check, or of two.
LaterChecks ==
  {<<t>> : t \in clock..horizon}
    \cup {<<t, u>> : t \in clock..horizon, u \in clock..horizon}

\* The sweep has just removed the entry of the client.
Swept ==
  /\ last.op = "cleanup"
  /\ last.pre # <<>>
  /\ "k1" \notin DOMAIN cache

\* C37 as stated: eviction is transparent to admission.  The later checks
\* of a key whose entry the sweep has removed get the results they would
\* get from the store with the entry still in it.
C37_EvictionTransparent ==
  Swept =>
    \A times \in {x \in LaterChecks : Len(x) = 1 \/ x[1] <= x[2]} :
      Decisions(cache, "k1", times, config)
        = Decisions(Put(cache, "k1", last.pre[1]), "k1", times, config)

\* C37, amended: the sweep removes only an entry that is not under an
\* active block and whose last_refill is at least 2 * block_duration old,
\* and the first check of the key after that acts on a fresh entry: it is
\* allowed and not newly blocked, with max_tokens remaining inside the
\* grace period and max_tokens - 1 otherwise, whatever the removed entry
\* held.
C37_SweptKeyStartsAfresh ==
  Swept =>
    /\ ~ActiveBlock(last.pre[1], last.now)
    /\ last.now - last.pre[1].last_refill >= 2 * block_duration_chrono(config)
    /\ \A t \in clock..horizon :
         check_rate_limit(cache, "k1", t, t, config).ret =
           Ret(TRUE, FALSE,
               IF config.grace_period_seconds > 0 THEN max_tokens(config)
               ELSE max_tokens(config) - OneToken)

\* The sweep has removed an entry that held less than a token after refill
\* and an expired block: retained, it would have denied a check made now;
\* removed, the check is allowed.
C37_Witness ==
  /\ Swept
  /\ last.pre[1].blocked_until # <<>>
  /\ Decisions(Put(cache, "k1", last.pre[1]), "k1", <<clock>>, config) = <<FALSE>>
  /\ Decisions(cache, "k1", <<clock>>, config) = <<TRUE>>

\* C38: get_cache_stats returns a consistent snapshot, also when it runs
\* while check, block_immediately and the sweep do: the pair it has
\* returned counts no more blocked entries than entries.
C38_StatsConsistent ==
  inflight.pc = "done" => inflight.blocked <= inflight.total
====
